---- MODULE Spec2Model ----
(***************************************************************************)
(* ProjectModel (packages/backend/src/models/ProjectModel/ProjectModel.ts) *)
(* as a state machine over the relational store it talks to.               *)
(*                                                                         *)
(*  - tryAcquireProjectLock: one knex transaction per call, the Postgres   *)
(*    transaction-scoped advisory lock pg_try_advisory_xact_lock keyed by  *)
(*    (CACHED_EXPLORES_PG_LOCK_NAMESPACE, project_id), and the two         *)
(*    continuations.                                                       *)
(*  - duplicateContent: one knex transaction per call, one step per        *)
(*    awaited statement, rows written by the transaction kept apart from   *)
(*    the committed tables until the commit.                               *)
(*  - the explores and warehouse caches: one upsert or select statement    *)
(*    per call, the snapshot stored as JSON text in a jsonb column.        *)
(*                                                                         *)
(* Tables are sets of rows (records named after the columns the code       *)
(* touches).  Autogenerated keys come from per-table sequences, which, as  *)
(* in Postgres, are shared by all transactions and never rolled back.      *)
(***************************************************************************)
EXTENDS Integers, Sequences, FiniteSets, TLC

VARIABLES
    db,          \* committed tables: table name -> set of rows
    seq,         \* table name -> next value of its id sequence
    advisoryLocks, \* lock key -> the lock call whose transaction holds the lock, 0 if free
    lpc,         \* lock call -> position inside tryAcquireProjectLock
    largs,       \* lock call -> [projectUuid, onLockFailed (supplied or not)]
    lattempt,    \* lock call -> what its try-lock statement found
    lran,        \* lock call -> continuations the current call has started
    lout,        \* lock call -> how its last finished call ended
    lerr,        \* lock call -> the error its continuation raised
    dpc,         \* duplicate call -> position inside duplicateContent
    dargs,       \* duplicate call -> [projectUuid, previewProjectUuid]
    wrote,       \* duplicate call -> table name -> rows its transaction inserted
    loc,         \* duplicate call -> local constants of the transaction callback
    derr,        \* duplicate call -> the error the call threw
    cached,      \* cache table name -> set of rows
    kret,        \* the last cache operation: its name, arguments and result
    saves,       \* cache table name -> project uuid -> snapshots saved, in statement order
    sensitiveDbtCredentialsFieldNames, \* the list imported from @lightdash/common
    sensitiveCredentialsFieldNames,    \* the list imported from @lightdash/common
    mret,        \* the last secret merge: its name, arguments and result
    memberships, \* the project_memberships table: set of rows
    apc,         \* access call -> position inside createProjectAccess
    aargs,       \* access call -> [projectUuid, email, role]
    aloc,        \* access call -> local constants project and user, calls in flight at its start
    aout,        \* access call -> how its last finished call ended
    ainserted,   \* access call -> rows its last call inserted
    pdb,         \* tables create and update write: table name -> set of rows
    pseq,        \* next value of the projects id sequence
    ppc,         \* project call -> position inside create or update
    pargs,       \* project call -> [op, uuid, data]
    ploc,        \* project call -> local constants of the call
    pwrote,      \* project call -> table name -> rows as its transaction sees them
    pout         \* project call -> how its last finished call ended

vars == <<db, seq, advisoryLocks, lpc, largs, lattempt, lran, lout, lerr, dpc, dargs, wrote, loc, derr,
         cached, kret, saves, sensitiveDbtCredentialsFieldNames, sensitiveCredentialsFieldNames,
         mret, memberships, apc, aargs, aloc, aout, ainserted, pdb, pseq, ppc, pargs, ploc,
         pwrote, pout>>
lockVars == <<advisoryLocks, lpc, largs, lattempt, lran, lout, lerr>>
dupVars == <<db, seq, dpc, dargs, wrote, loc, derr>>
cacheVars == <<cached, kret, saves>>
mergeVars == <<sensitiveDbtCredentialsFieldNames, sensitiveCredentialsFieldNames, mret>>
accessVars == <<memberships, apc, aargs, aloc, aout, ainserted>>
projectVars == <<pdb, pseq, ppc, pargs, ploc, pwrote, pout>>

----------------------------------------------------------------------------
(* Bounds of the model *)

NumLockCalls == 2     \* concurrent callers of tryAcquireProjectLock
NumDupCalls == 2      \* calls of duplicateContent
NumAccessCalls == 2   \* concurrent calls of createProjectAccess
NumProjectCalls == 2  \* calls of create and update
MaxSaves == 3         \* saves to the cache, all callers together
MaxSpaces == 2        \* spaces of the source project
MaxCharts == 2        \* charts of the source project
MaxDashboards == 1    \* dashboards of the source project
MaxVersions == 2      \* versions of one chart or dashboard

(* SQL NULL, which is also what knex stores for an undefined value *)
Null == 0

CACHED_EXPLORES_PG_LOCK_NAMESPACE == 1

LockCalls == 1..NumLockCalls
DupCalls == 1..NumDupCalls
AccessCalls == 1..NumAccessCalls
ProjectCalls == 1..NumProjectCalls

----------------------------------------------------------------------------
(* The store *)

SourceUuid == "src"
PreviewUuid == "preview"
OtherUuid == "other"
MissingUuid == "missing"

(* The projects table: the source project, its (empty) preview project and *)
(* one unrelated project of the same organization.                         *)
Projects ==
    { [project_id |-> 1, project_uuid |-> SourceUuid],
      [project_id |-> 2, project_uuid |-> PreviewUuid],
      [project_id |-> 3, project_uuid |-> OtherUuid] }

ProjectIds == { p.project_id : p \in Projects }

TableNames ==
    { "projects", "spaces", "space_share", "saved_queries", "saved_queries_versions",
      "saved_queries_version_table_calculations", "saved_queries_version_sorts",
      "saved_queries_version_fields", "saved_queries_version_additional_metrics",
      "dashboards", "dashboard_versions", "dashboard_tiles", "dashboard_tile_charts",
      "dashboard_tile_looms", "dashboard_tile_markdowns", "preview_content" }

EmptyTables == [t \in TableNames |-> {}]

----------------------------------------------------------------------------
(* tryAcquireProjectLock *)

(* SELECT pg_try_advisory_xact_lock(1, project_id) FROM projects           *)
(* WHERE project_uuid = '...' LIMIT 1: the rows the statement visits.      *)
ProjectLockRowsOfAnyProject(projectUuid) == db["projects"]

ProjectLockRows(projectUuid) == { p \in db["projects"] : p.project_uuid = projectUuid }

(* pg_try_advisory_xact_lock: granted when no other transaction holds the  *)
(* key (a transaction that already holds it is granted it again).          *)
LockKeyOfNamespace(projectId) == <<CACHED_EXPLORES_PG_LOCK_NAMESPACE, 1>>

LockKey(projectId) == <<CACHED_EXPLORES_PG_LOCK_NAMESPACE, projectId>>

LockAlwaysGranted(c, key) == TRUE

pg_try_advisory_xact_lock(c, key) == advisoryLocks[key] \in {0, c}

ReleaseNoLocks(c) == advisoryLocks

(* What the end of a transaction does to the advisory locks: every lock    *)
(* the transaction holds is released, by commit and by rollback alike.     *)
ReleaseLocks(c) == [k \in DOMAIN advisoryLocks |-> IF advisoryLocks[k] = c THEN 0 ELSE advisoryLocks[k]]

LockInputs == {SourceUuid, PreviewUuid, MissingUuid}

(* The call: this.database.transaction(async (trx) => ...) opens the       *)
(* transaction.                                                            *)
tryAcquireProjectLock(c) ==
    /\ lpc[c] = "idle"
    /\ \E projectUuid \in LockInputs, onLockFailed \in BOOLEAN :
          largs' = [largs EXCEPT ![c] = [projectUuid |-> projectUuid, onLockFailed |-> onLockFailed]]
    /\ lpc' = [lpc EXCEPT ![c] = "tryLock"]
    /\ lattempt' = [lattempt EXCEPT ![c] = "none"]
    /\ lran' = [lran EXCEPT ![c] = {}]
    /\ lout' = [lout EXCEPT ![c] = "none"]
    /\ lerr' = [lerr EXCEPT ![c] = "none"]
    /\ UNCHANGED <<advisoryLocks, dupVars, cacheVars, mergeVars, accessVars, projectVars>>

TryLockWaiting(c) ==
    /\ lpc[c] = "tryLock"
    /\ LET rows == ProjectLockRows(largs[c].projectUuid) IN
       IF rows = {}
       THEN /\ lattempt' = [lattempt EXCEPT ![c] = "noproject"]
            /\ lpc' = [lpc EXCEPT ![c] = "commit"]
            /\ UNCHANGED <<advisoryLocks, lran>>
       ELSE LET key == LockKey((CHOOSE p \in rows : TRUE).project_id) IN
            /\ pg_try_advisory_xact_lock(c, key)
            /\ lattempt' = [lattempt EXCEPT ![c] = "free"]
            /\ advisoryLocks' = [advisoryLocks EXCEPT ![key] = c]
            /\ lran' = [lran EXCEPT ![c] = {"onLockAcquired"}]
            /\ lpc' = [lpc EXCEPT ![c] = "onLockAcquired"]
    /\ UNCHANGED <<largs, lout, lerr, dupVars, cacheVars, mergeVars, accessVars, projectVars>>

TryLockThenAlwaysOnLockFailed(c) ==
    /\ lpc[c] = "tryLock"
    /\ LET rows == ProjectLockRows(largs[c].projectUuid) IN
       IF rows = {}
       THEN /\ lattempt' = [lattempt EXCEPT ![c] = "noproject"]
            /\ lpc' = [lpc EXCEPT ![c] = "commit"]
            /\ UNCHANGED <<advisoryLocks, lran>>
       ELSE LET key == LockKey((CHOOSE p \in rows : TRUE).project_id)
                acquiresLock == pg_try_advisory_xact_lock(c, key)
            IN  /\ lattempt' = [lattempt EXCEPT ![c] =
                                  IF advisoryLocks[key] \in LockCalls \ {c} THEN "held" ELSE "free"]
                /\ IF acquiresLock
                   THEN /\ advisoryLocks' = [advisoryLocks EXCEPT ![key] = c]
                        /\ lran' = [lran EXCEPT ![c] = {"onLockAcquired"}]
                        /\ lpc' = [lpc EXCEPT ![c] = "onLockAcquired"]
                   ELSE /\ lran' = [lran EXCEPT ![c] = {"onLockFailed"}]
                        /\ lpc' = [lpc EXCEPT ![c] = "onLockFailed"]
                        /\ UNCHANGED advisoryLocks
    /\ UNCHANGED <<largs, lout, lerr, dupVars, cacheVars, mergeVars, accessVars, projectVars>>

(* await trx.raw(...) and the branch on its result.  lattempt records what *)
(* the statement met: no project row, the key free, or the key held by     *)
(* another transaction.                                                    *)
TryLock(c) ==
    /\ lpc[c] = "tryLock"
    /\ LET rows == ProjectLockRows(largs[c].projectUuid) IN
       IF rows = {}
       THEN \* No project with uuid in DB
            /\ lattempt' = [lattempt EXCEPT ![c] = "noproject"]
            /\ lpc' = [lpc EXCEPT ![c] = "commit"]
            /\ UNCHANGED <<advisoryLocks, lran>>
       ELSE LET key == LockKey((CHOOSE p \in rows : TRUE).project_id)
                acquiresLock == pg_try_advisory_xact_lock(c, key)
            IN  /\ lattempt' = [lattempt EXCEPT ![c] =
                                  IF advisoryLocks[key] \in LockCalls \ {c} THEN "held" ELSE "free"]
                /\ IF acquiresLock
                   THEN /\ advisoryLocks' = [advisoryLocks EXCEPT ![key] = c]
                        /\ lran' = [lran EXCEPT ![c] = {"onLockAcquired"}]
                        /\ lpc' = [lpc EXCEPT ![c] = "onLockAcquired"]
                   ELSE /\ IF largs[c].onLockFailed
                           THEN /\ lran' = [lran EXCEPT ![c] = {"onLockFailed"}]
                                /\ lpc' = [lpc EXCEPT ![c] = "onLockFailed"]
                           ELSE /\ lpc' = [lpc EXCEPT ![c] = "commit"]
                                /\ UNCHANGED lran
                        /\ UNCHANGED advisoryLocks
    /\ UNCHANGED <<largs, lout, lerr, dupVars, cacheVars, mergeVars, accessVars, projectVars>>

(* The continuation's promise resolves. *)
ContinuationReturns(c) ==
    /\ lpc[c] \in {"onLockAcquired", "onLockFailed"}
    /\ lpc' = [lpc EXCEPT ![c] = "commit"]
    /\ UNCHANGED <<advisoryLocks, largs, lattempt, lran, lout, lerr, dupVars, cacheVars, mergeVars, accessVars, projectVars>>

ContinuationThrowsSwallowed(c) ==
    /\ lpc[c] \in {"onLockAcquired", "onLockFailed"}
    /\ lpc' = [lpc EXCEPT ![c] = "commit"]
    /\ lerr' = [lerr EXCEPT ![c] = "Error"]
    /\ UNCHANGED <<advisoryLocks, largs, lattempt, lran, lout, dupVars, cacheVars, mergeVars, accessVars, projectVars>>

(* The continuation's promise rejects: the await rethrows, nothing catches *)
(* it, and the transaction callback rejects.                               *)
ContinuationThrows(c) ==
    /\ lpc[c] \in {"onLockAcquired", "onLockFailed"}
    /\ lpc' = [lpc EXCEPT ![c] = "rollback"]
    /\ lerr' = [lerr EXCEPT ![c] = "Error"]
    /\ UNCHANGED <<advisoryLocks, largs, lattempt, lran, lout, dupVars, cacheVars, mergeVars, accessVars, projectVars>>

(* knex commits when the callback resolves; the call returns. *)
LockCommit(c) ==
    /\ lpc[c] = "commit"
    /\ advisoryLocks' = ReleaseLocks(c)
    /\ lpc' = [lpc EXCEPT ![c] = "idle"]
    /\ lout' = [lout EXCEPT ![c] = "returned"]
    /\ UNCHANGED <<largs, lattempt, lran, lerr, dupVars, cacheVars, mergeVars, accessVars, projectVars>>

(* knex rolls back when the callback rejects; the call throws. *)
LockRollback(c) ==
    /\ lpc[c] = "rollback"
    /\ advisoryLocks' = ReleaseLocks(c)
    /\ lpc' = [lpc EXCEPT ![c] = "idle"]
    /\ lout' = [lout EXCEPT ![c] = "threw"]
    /\ UNCHANGED <<largs, lattempt, lran, lerr, dupVars, cacheVars, mergeVars, accessVars, projectVars>>

InitLockVars ==
    /\ advisoryLocks = [k \in { LockKey(p) : p \in ProjectIds } |-> 0]
    /\ lpc = [c \in LockCalls |-> "idle"]
    /\ largs = [c \in LockCalls |-> [projectUuid |-> MissingUuid, onLockFailed |-> FALSE]]
    /\ lattempt = [c \in LockCalls |-> "none"]
    /\ lran = [c \in LockCalls |-> {}]
    /\ lout = [c \in LockCalls |-> "none"]
    /\ lerr = [c \in LockCalls |-> "none"]

NextLock ==
    \E c \in LockCalls :
        \/ tryAcquireProjectLock(c)
        \/ TryLock(c)
        \/ ContinuationReturns(c)
        \/ ContinuationThrows(c)
        \/ LockCommit(c)
        \/ LockRollback(c)

----------------------------------------------------------------------------
(* Content of the store before any call: a source project with nS spaces,  *)
(* Len(cv) charts (chart i with cv[i] versions), Len(dv) dashboards        *)
(* (dashboard j with dv[j] versions), and the unrelated project with one   *)
(* space, one chart and one dashboard of its own.  Version ids are dealt   *)
(* round-robin, so the versions of one parent are not consecutive, and     *)
(* created_at runs against the ids.  With foreign, the first tile of every *)
(* source dashboard version shows the unrelated project's chart.           *)

ChartVersionContentTables ==
    << "saved_queries_version_table_calculations", "saved_queries_version_sorts",
       "saved_queries_version_fields", "saved_queries_version_additional_metrics" >>

TileContentTables == << "dashboard_tile_charts", "dashboard_tile_looms", "dashboard_tile_markdowns" >>

(* The primary key column copyChartVersionContent is told to drop *)
FieldId(table) ==
    CASE table = "saved_queries_version_table_calculations" -> "saved_queries_version_table_calculation_id"
      [] table = "saved_queries_version_sorts" -> "saved_queries_version_sort_id"
      [] table = "saved_queries_version_fields" -> "saved_queries_version_field_id"
      [] table = "saved_queries_version_additional_metrics" -> "saved_queries_version_additional_metric_id"

TileType(k) == CASE k % 3 = 1 -> "dashboard_tile_charts"
                 [] k % 3 = 2 -> "dashboard_tile_markdowns"
                 [] OTHER -> "dashboard_tile_looms"

GraphSpaces(nS) ==
    { [space_id |-> i, project_id |-> 1, name |-> <<"space", i>>, is_private |-> (i % 2 = 0)] : i \in 1..nS }
    \cup { [space_id |-> nS + 1, project_id |-> 3, name |-> <<"space", 0>>, is_private |-> FALSE] }

GraphSpaceShare(nS) ==
    { [space_id |-> i, user_id |-> i - 1] : i \in 2..nS }
    \cup { [space_id |-> nS + 1, user_id |-> 2] }

GraphCharts(nS, nC) ==
    { [saved_query_id |-> i, space_id |-> ((i - 1) % nS) + 1, name |-> <<"chart", i>>] : i \in 1..nC }
    \cup { [saved_query_id |-> nC + 1, space_id |-> nS + 1, name |-> <<"chart", 0>>] }

GraphChartVersions(cv) ==
    LET nC == Len(cv) IN
    { [saved_queries_version_id |-> (x[2] - 1) * nC + x[1], saved_query_id |-> x[1],
       created_at |-> MaxVersions + 1 - x[2]] :
         x \in { y \in (1..nC) \X (1..MaxVersions) : y[2] <= cv[y[1]] } }
    \cup { [saved_queries_version_id |-> MaxVersions * nC + 1, saved_query_id |-> nC + 1,
            created_at |-> 0] }

(* Rows of a chart-version content table: fields for every version, sorts  *)
(* for the versions with an odd id, table calculations for the versions    *)
(* with an even id, additional metrics for the versions of chart 2.        *)
GraphChartVersionContent(table, versions) ==
    LET has(v) == CASE table = "saved_queries_version_fields" -> TRUE
                    [] table = "saved_queries_version_sorts" -> v.saved_queries_version_id % 2 = 1
                    [] table = "saved_queries_version_table_calculations" -> v.saved_queries_version_id % 2 = 0
                    [] OTHER -> v.saved_query_id = 2
    IN { (FieldId(table) :> v.saved_queries_version_id)
         @@ [saved_queries_version_id |-> v.saved_queries_version_id,
             name |-> <<table, v.saved_queries_version_id>>] : v \in { w \in versions : has(w) } }

GraphDashboards(nS, nD) ==
    { [dashboard_id |-> j, space_id |-> nS - ((j - 1) % nS), name |-> <<"dashboard", j>>] : j \in 1..nD }
    \cup { [dashboard_id |-> nD + 1, space_id |-> nS + 1, name |-> <<"dashboard", 0>>] }

GraphDashboardVersions(dv) ==
    LET nD == Len(dv) IN
    { [dashboard_version_id |-> (x[2] - 1) * nD + x[1], dashboard_id |-> x[1],
       created_at |-> MaxVersions + 1 - x[2]] :
         x \in { y \in (1..nD) \X (1..MaxVersions) : y[2] <= dv[y[1]] } }
    \cup { [dashboard_version_id |-> MaxVersions * nD + 1, dashboard_id |-> nD + 1, created_at |-> 0] }

(* Version number r of a dashboard has the tiles 1..r+1 of that dashboard; *)
(* a tile keeps its uuid from one version of its dashboard to the next.    *)
TileUuid(j, k) == 10 * j + k

GraphTilesOf(v, nD) ==
    LET r == IF v.dashboard_id > nD THEN 0 ELSE ((v.dashboard_version_id - 1) \div nD) + 1 IN
    { [dashboard_version_id |-> v.dashboard_version_id,
       dashboard_tile_uuid |-> TileUuid(v.dashboard_id, k),
       type |-> TileType(k)] : k \in 1..(r + 1) }

GraphTiles(dv) ==
    UNION { GraphTilesOf(v, Len(dv)) : v \in GraphDashboardVersions(dv) }

GraphTileContent(table, dv, nC, foreign) ==
    LET nD == Len(dv)
        k(t) == t.dashboard_tile_uuid % 10
        j(t) == t.dashboard_tile_uuid \div 10
        chart(t) == IF j(t) > nD \/ (foreign /\ k(t) = 1) THEN nC + 1
                    ELSE IF nC = 0 THEN Null
                    ELSE ((j(t) + k(t) - 2) % nC) + 1
        key(t) == [dashboard_version_id |-> t.dashboard_version_id,
                   dashboard_tile_uuid |-> t.dashboard_tile_uuid]
    IN { IF table = "dashboard_tile_charts"
         THEN key(t) @@ [saved_chart_id |-> chart(t)]
         ELSE key(t) @@ [content |-> <<table, t.dashboard_tile_uuid>>] :
             t \in { u \in GraphTiles(dv) : u.type = table } }

Graph(nS, cv, dv, foreign) ==
    [t \in TableNames |->
        CASE t = "projects" -> Projects
          [] t = "spaces" -> GraphSpaces(nS)
          [] t = "space_share" -> GraphSpaceShare(nS)
          [] t = "saved_queries" -> GraphCharts(nS, Len(cv))
          [] t = "saved_queries_versions" -> GraphChartVersions(cv)
          [] t \in { ChartVersionContentTables[i] : i \in 1..4 } ->
                GraphChartVersionContent(t, GraphChartVersions(cv))
          [] t = "dashboards" -> GraphDashboards(nS, Len(dv))
          [] t = "dashboard_versions" -> GraphDashboardVersions(dv)
          [] t = "dashboard_tiles" -> GraphTiles(dv)
          [] t \in { TileContentTables[i] : i \in 1..3 } -> GraphTileContent(t, dv, Len(cv), foreign)
          [] OTHER -> {}]

(* The sequences behind the autogenerated keys start above every id. *)
IdColumn(t) ==
    CASE t = "spaces" -> "space_id"
      [] t = "saved_queries" -> "saved_query_id"
      [] t = "saved_queries_versions" -> "saved_queries_version_id"
      [] t \in { ChartVersionContentTables[i] : i \in 1..4 } -> FieldId(t)
      [] t = "dashboards" -> "dashboard_id"
      [] t = "dashboard_versions" -> "dashboard_version_id"
      [] OTHER -> ""

Max(S) == CHOOSE x \in S : \A y \in S : y <= x

InitialSeq(tables) ==
    [t \in TableNames |->
        IF IdColumn(t) = "" THEN 0
        ELSE Max({0} \cup { r[IdColumn(t)] : r \in tables[t] }) + 1]

VersionCounts(n) == UNION { [1..m -> 0..MaxVersions] : m \in 0..n }

Graphs ==
    { Graph(nS, cv, dv, foreign) :
        nS \in 1..MaxSpaces, cv \in VersionCounts(MaxCharts),
        dv \in VersionCounts(MaxDashboards), foreign \in BOOLEAN }
    \cup { Graph(0, <<>>, <<>>, FALSE) }

----------------------------------------------------------------------------
(* duplicateContent *)

(* A select without ORDER BY, read in key order. *)
RECURSIVE OrderBy(_, _)
OrderBy(S, key) ==
    IF S = {} THEN <<>>
    ELSE LET m == CHOOSE x \in S : \A y \in S : key[x] <= key[y]
         IN <<m>> \o OrderBy(S \ {m}, key)

ById(S, column) == OrderBy(S, [r \in S |-> r[column]])

Range(f) == { f[i] : i \in DOMAIN f }

(* What a statement run on trx sees: the committed rows and the rows the   *)
(* transaction itself has inserted.                                        *)
Visible(c, t) == db[t] \cup wrote[c][t]

(* mapping.find((m) => m.id === id)?.newId : undefined when nothing matches *)
Find(mapping, id) ==
    IF \E i \in DOMAIN mapping : mapping[i].id = id
    THEN mapping[CHOOSE i \in DOMAIN mapping :
                    /\ mapping[i].id = id
                    /\ \A k \in DOMAIN mapping : mapping[k].id = id => i <= k].newId
    ELSE Null

(* rows.map((r, i) => ({ id: r[column], newId: newRows[i][column] })) *)
Mapping(rows, newRows, column) ==
    [i \in DOMAIN rows |-> [id |-> rows[i][column], newId |-> newRows[i][column]]]

WithReusedIds(rows, column, next) ==
    [i \in DOMAIN rows |-> (column :> i) @@ rows[i]]

(* insert(...).returning('*') of rows whose key column was deleted: the    *)
(* key of the i-th row is the i-th value drawn from the table's sequence.  *)
WithNewIds(rows, column, next) ==
    [i \in DOMAIN rows |-> (column :> (next + i - 1)) @@ rows[i]]

AllVersionIds(versions, parent, id, parentIds) ==
    { v[id] : v \in { w \in versions : w[parent] \in parentIds } }

(* groupBy(parent).max(id) over the rows whose parent is in parentIds *)
LastVersionIds(versions, parent, id, parentIds) ==
    { Max({ v[id] : v \in { w \in versions : w[parent] = p } }) :
        p \in { q \in parentIds : \E w \in versions : w[parent] = q } }

DupInputs ==
    { [projectUuid |-> SourceUuid, previewProjectUuid |-> PreviewUuid],
      [projectUuid |-> MissingUuid, previewProjectUuid |-> PreviewUuid],
      [projectUuid |-> SourceUuid, previewProjectUuid |-> MissingUuid] }

NoLocals ==
    [previewProject |-> {}, projectId |-> Null, spaceIds |-> {}, spaceMapping |-> <<>>,
     chartIds |-> {}, chartMapping |-> <<>>, chartVersionIds |-> {}, chartVersionMapping |-> <<>>,
     dashboardIds |-> {}, dashboardMapping |-> <<>>, dashboardVersionIds |-> {},
     dashboardVersionsMapping |-> <<>>, dashboardTileUuids |-> {}, dashboardTilesMapping |-> <<>>]

(* The statements of the transaction callback, in order *)
Steps ==
    << "resolve", "spaces", "space_share", "saved_queries", "saved_queries_versions" >>
    \o ChartVersionContentTables
    \o << "dashboards", "dashboard_versions", "dashboard_tiles" >>
    \o TileContentTables
    \o << "preview_content", "commit" >>

StepAfter(step) == Steps[(CHOOSE i \in DOMAIN Steps : Steps[i] = step) + 1]

InTransaction(c) == dpc[c] \in Range(Steps)

InsertOutsideTransaction(c, t, newRows) ==
    /\ wrote' = [wrote EXCEPT ![c][t] = @ \cup Range(newRows)]
    /\ db' = [db EXCEPT ![t] = @ \cup Range(newRows)]
    /\ seq' = [seq EXCEPT ![t] = IF IdColumn(t) = "" THEN @ ELSE @ + Len(newRows)]
    /\ dpc' = [dpc EXCEPT ![c] = StepAfter(dpc[c])]
    /\ UNCHANGED <<dargs, derr, lockVars, cacheVars, mergeVars, accessVars, projectVars>>

(* What every step does besides its inserts *)
Insert(c, t, newRows) ==
    /\ wrote' = [wrote EXCEPT ![c][t] = @ \cup Range(newRows)]
    /\ seq' = [seq EXCEPT ![t] = IF IdColumn(t) = "" THEN @ ELSE @ + Len(newRows)]
    /\ dpc' = [dpc EXCEPT ![c] = StepAfter(dpc[c])]
    /\ UNCHANGED <<db, dargs, derr, lockVars, cacheVars, mergeVars, accessVars, projectVars>>

ThrowWithoutRollback(c, error) ==
    /\ dpc' = [dpc EXCEPT ![c] = "failed"]
    /\ derr' = [derr EXCEPT ![c] = error]
    /\ db' = [t \in TableNames |-> db[t] \cup wrote[c][t]]
    /\ UNCHANGED <<seq, dargs, wrote, loc, lockVars, cacheVars, mergeVars, accessVars, projectVars>>

(* A rejected promise inside the callback: knex rolls the transaction back *)
(* and duplicateContent throws.                                            *)
Throw(c, error) ==
    /\ dpc' = [dpc EXCEPT ![c] = "failed"]
    /\ derr' = [derr EXCEPT ![c] = error]
    /\ UNCHANGED <<db, seq, dargs, wrote, loc, lockVars, cacheVars, mergeVars, accessVars, projectVars>>

(* The calls are numbered in the order they are made, and the model makes  *)
(* a call once the calls before it have returned or thrown.                *)
duplicateContent(c) ==
    /\ dpc[c] = "idle"
    /\ \A o \in DupCalls : o < c => dpc[o] \in {"done", "failed"}
    /\ \E a \in DupInputs : dargs' = [dargs EXCEPT ![c] = a]
    /\ dpc' = [dpc EXCEPT ![c] = "resolve"]
    /\ UNCHANGED <<db, seq, wrote, loc, derr, lockVars, cacheVars, mergeVars, accessVars, projectVars>>

(* const [previewProject] = ...; const [project] = ...;                    *)
(* const projectId = project.project_id                                    *)
Resolve(c) ==
    /\ dpc[c] = "resolve"
    /\ LET previewProject == { p \in Visible(c, "projects") : p.project_uuid = dargs[c].previewProjectUuid }
           project == { p \in Visible(c, "projects") : p.project_uuid = dargs[c].projectUuid }
       IN IF project = {}
          THEN Throw(c, "TypeError")   \* project is undefined
          ELSE /\ loc' = [loc EXCEPT ![c].previewProject = previewProject,
                                     ![c].projectId = (CHOOSE p \in project : TRUE).project_id]
               /\ dpc' = [dpc EXCEPT ![c] = "spaces"]
               /\ UNCHANGED <<db, seq, dargs, wrote, derr, lockVars, cacheVars, mergeVars, accessVars, projectVars>>

SourceSpaces(c) == ById({ r \in Visible(c, "spaces") : r.project_id = loc[c].projectId }, "space_id")

NewSpacesKeptInSource(c, spaces) == WithNewIds(spaces, "space_id", seq["spaces"])

NewSpaces(c, spaces) ==
    WithNewIds([i \in DOMAIN spaces |->
                  [spaces[i] EXCEPT !.project_id = (CHOOSE p \in loc[c].previewProject : TRUE).project_id]],
               "space_id", seq["spaces"])

CopySpaces(c) ==
    /\ dpc[c] = "spaces"
    /\ LET spaces == SourceSpaces(c) IN
       IF Len(spaces) > 0 /\ loc[c].previewProject = {}
       THEN Throw(c, "TypeError")   \* previewProject is undefined
       ELSE LET newSpaces == NewSpaces(c, spaces) IN
            /\ Insert(c, "spaces", newSpaces)
            /\ loc' = [loc EXCEPT ![c].spaceIds = { spaces[i].space_id : i \in DOMAIN spaces },
                                  ![c].spaceMapping = Mapping(spaces, newSpaces, "space_id")]

getNewSpaceFirst(c, oldSpaceId) == loc[c].spaceMapping[1].newId

getNewSpaceUnmapped(c, oldSpaceId) == oldSpaceId

getNewSpace(c, oldSpaceId) == Find(loc[c].spaceMapping, oldSpaceId)

SourceSpaceShares(c) ==
    OrderBy({ r \in Visible(c, "space_share") : r.space_id \in loc[c].spaceIds },
            [r \in Visible(c, "space_share") |-> 100 * r.space_id + r.user_id])

NewSpaceSharesOnFirst(c, spaceShares) ==
    [i \in DOMAIN spaceShares |-> [spaceShares[i] EXCEPT !.space_id = loc[c].spaceMapping[1].newId]]

NewSpaceShares(c, spaceShares) ==
    [i \in DOMAIN spaceShares |-> [spaceShares[i] EXCEPT !.space_id = getNewSpace(c, @)]]

CopySpaceShares(c) ==
    /\ dpc[c] = "space_share"
    /\ Insert(c, "space_share", NewSpaceShares(c, SourceSpaceShares(c)))
    /\ UNCHANGED loc

SourceChartsOfAnyProject(c) == ById(Visible(c, "saved_queries"), "saved_query_id")

(* saved_queries leftJoin spaces where spaces.project_id = projectId *)
SourceCharts(c) ==
    ById({ r \in Visible(c, "saved_queries") :
             \E sp \in Visible(c, "spaces") : sp.space_id = r.space_id /\ sp.project_id = loc[c].projectId },
         "saved_query_id")

NewCharts(c, charts) ==
    WithNewIds([i \in DOMAIN charts |-> [charts[i] EXCEPT !.space_id = getNewSpace(c, @)]],
               "saved_query_id", seq["saved_queries"])

CopyCharts(c) ==
    /\ dpc[c] = "saved_queries"
    /\ LET charts == SourceCharts(c)
           newCharts == NewCharts(c, charts)
       IN /\ Insert(c, "saved_queries", newCharts)
          /\ loc' = [loc EXCEPT ![c].chartIds = { charts[i].saved_query_id : i \in DOMAIN charts },
                                ![c].chartMapping = Mapping(charts, newCharts, "saved_query_id")]

(* only get last chart version *)
SourceChartVersions(c) ==
    LET lastVersionIds == LastVersionIds(Visible(c, "saved_queries_versions"), "saved_query_id",
                                         "saved_queries_version_id", loc[c].chartIds)
    IN ById({ r \in Visible(c, "saved_queries_versions") : r.saved_queries_version_id \in lastVersionIds },
            "saved_queries_version_id")

NewChartVersions(c, chartVersions) ==
    WithNewIds([i \in DOMAIN chartVersions |->
                  [chartVersions[i] EXCEPT !.saved_query_id = Find(loc[c].chartMapping, @)]],
               "saved_queries_version_id", seq["saved_queries_versions"])

CopyChartVersions(c) ==
    /\ dpc[c] = "saved_queries_versions"
    /\ LET chartVersions == SourceChartVersions(c)
           newChartVersions == NewChartVersions(c, chartVersions)
       IN /\ Insert(c, "saved_queries_versions", newChartVersions)
          /\ loc' = [loc EXCEPT
                ![c].chartVersionIds = { chartVersions[i].saved_queries_version_id : i \in DOMAIN chartVersions },
                ![c].chartVersionMapping = Mapping(chartVersions, newChartVersions, "saved_queries_version_id")]

ChartVersionContent(c, table) ==
    ById({ r \in Visible(c, table) : r.saved_queries_version_id \in loc[c].chartVersionIds }, FieldId(table))

NewChartVersionContentUnmapped(c, table, content) ==
    WithNewIds(content, FieldId(table), seq[table])

NewChartVersionContent(c, table, content) ==
    WithNewIds([i \in DOMAIN content |->
                  [content[i] EXCEPT !.saved_queries_version_id = Find(loc[c].chartVersionMapping, @)]],
               FieldId(table), seq[table])

copyChartVersionContentUnguarded(c) ==
    /\ dpc[c] \in Range(ChartVersionContentTables)
    /\ LET content == ChartVersionContent(c, dpc[c]) IN
       IF content = <<>>
       THEN Throw(c, "Error")   \* knex: The query is empty
       ELSE Insert(c, dpc[c], NewChartVersionContent(c, dpc[c], content)) /\ UNCHANGED loc

(* copyChartVersionContent(table, fieldId), once per content table *)
copyChartVersionContent(c) ==
    /\ dpc[c] \in Range(ChartVersionContentTables)
    /\ LET content == ChartVersionContent(c, dpc[c]) IN
       Insert(c, dpc[c], NewChartVersionContent(c, dpc[c], content))
    /\ UNCHANGED loc

(* dashboards leftJoin spaces where spaces.project_id = projectId *)
SourceDashboards(c) ==
    ById({ r \in Visible(c, "dashboards") :
             \E sp \in Visible(c, "spaces") : sp.space_id = r.space_id /\ sp.project_id = loc[c].projectId },
         "dashboard_id")

NewDashboards(c, dashboards) ==
    WithNewIds([i \in DOMAIN dashboards |-> [dashboards[i] EXCEPT !.space_id = getNewSpace(c, @)]],
               "dashboard_id", seq["dashboards"])

CopyDashboards(c) ==
    /\ dpc[c] = "dashboards"
    /\ LET dashboards == SourceDashboards(c)
           newDashboards == NewDashboards(c, dashboards)
       IN /\ Insert(c, "dashboards", newDashboards)
          /\ loc' = [loc EXCEPT ![c].dashboardIds = { dashboards[i].dashboard_id : i \in DOMAIN dashboards },
                                ![c].dashboardMapping = Mapping(dashboards, newDashboards, "dashboard_id")]

AllDashboardVersionsIds(c) ==
    { v.dashboard_version_id : v \in { w \in Visible(c, "dashboard_versions") : w.dashboard_id \in loc[c].dashboardIds } }

(* Get last version of a dashboard *)
LastDashboardVersionsIds(c) ==
    LastVersionIds(Visible(c, "dashboard_versions"), "dashboard_id", "dashboard_version_id",
                   loc[c].dashboardIds)

SourceDashboardVersions(c, dashboardVersionIds) ==
    ById({ r \in Visible(c, "dashboard_versions") : r.dashboard_version_id \in dashboardVersionIds },
         "dashboard_version_id")

NewDashboardVersions(c, dashboardVersions) ==
    WithNewIds([i \in DOMAIN dashboardVersions |->
                  [dashboardVersions[i] EXCEPT !.dashboard_id = Find(loc[c].dashboardMapping, @)]],
               "dashboard_version_id", seq["dashboard_versions"])

CopyDashboardVersions(c) ==
    /\ dpc[c] = "dashboard_versions"
    /\ LET dashboardVersionIds == LastDashboardVersionsIds(c)
           dashboardVersions == SourceDashboardVersions(c, dashboardVersionIds)
           newDashboardVersions == NewDashboardVersions(c, dashboardVersions)
       IN /\ Insert(c, "dashboard_versions", newDashboardVersions)
          /\ loc' = [loc EXCEPT
                ![c].dashboardVersionIds = dashboardVersionIds,
                ![c].dashboardVersionsMapping =
                    Mapping(dashboardVersions, newDashboardVersions, "dashboard_version_id")]

TileOrder(S) == OrderBy(S, [r \in S |-> 100 * r.dashboard_version_id + r.dashboard_tile_uuid])

SourceDashboardTiles(c) ==
    TileOrder({ r \in Visible(c, "dashboard_tiles") : r.dashboard_version_id \in loc[c].dashboardVersionIds })

NewDashboardTilesFreshUuid(c, dashboardTiles) ==
    [i \in DOMAIN dashboardTiles |->
        [dashboardTiles[i] EXCEPT !.dashboard_version_id = Find(loc[c].dashboardVersionsMapping, @),
                                  !.dashboard_tile_uuid = @ + 100]]

(* we keep the same dashboard_tile_uuid *)
NewDashboardTiles(c, dashboardTiles) ==
    [i \in DOMAIN dashboardTiles |->
        [dashboardTiles[i] EXCEPT !.dashboard_version_id = Find(loc[c].dashboardVersionsMapping, @)]]

CopyDashboardTiles(c) ==
    /\ dpc[c] = "dashboard_tiles"
    /\ LET dashboardTiles == SourceDashboardTiles(c)
           newDashboardTiles == NewDashboardTiles(c, dashboardTiles)
       IN /\ Insert(c, "dashboard_tiles", newDashboardTiles)
          /\ loc' = [loc EXCEPT
                ![c].dashboardTileUuids = { dashboardTiles[i].dashboard_tile_uuid : i \in DOMAIN dashboardTiles },
                ![c].dashboardTilesMapping = Mapping(dashboardTiles, newDashboardTiles, "dashboard_tile_uuid")]

TileContent(c, table) ==
    TileOrder({ r \in Visible(c, table) :
                  /\ r.dashboard_tile_uuid \in loc[c].dashboardTileUuids
                  /\ r.dashboard_version_id \in loc[c].dashboardVersionIds })

(* ...(d.saved_chart_id && { saved_chart_id: chartMapping.find(...)?.newId }) *)
NewSavedChartId(c, d) ==
    IF "saved_chart_id" \in DOMAIN d /\ d.saved_chart_id # Null
    THEN [saved_chart_id |-> Find(loc[c].chartMapping, d.saved_chart_id)]
    ELSE <<>>

NewTileContent(c, content) ==
    [i \in DOMAIN content |->
        [dashboard_version_id |-> Find(loc[c].dashboardVersionsMapping, content[i].dashboard_version_id),
         dashboard_tile_uuid |-> Find(loc[c].dashboardTilesMapping, content[i].dashboard_tile_uuid)]
        @@ NewSavedChartId(c, content[i]) @@ content[i]]

(* copyDashboardTileContent(table), once per tile content table *)
copyDashboardTileContent(c) ==
    /\ dpc[c] \in Range(TileContentTables)
    /\ Insert(c, dpc[c], NewTileContent(c, TileContent(c, dpc[c])))
    /\ UNCHANGED loc

contentMapping(c) ==
    [charts |-> loc[c].chartMapping,
     chartVersions |-> loc[c].chartVersionMapping,
     spaces |-> loc[c].spaceMapping,
     dashboards |-> loc[c].dashboardMapping,
     dashboardVersions |-> loc[c].dashboardVersionsMapping]

(* Insert mapping on database.  xmin is the row's system column naming the *)
(* transaction that inserted it: two rows of equal content stay two rows.  *)
InsertPreviewContent(c) ==
    /\ dpc[c] = "preview_content"
    /\ Insert(c, "preview_content",
              << [project_uuid |-> dargs[c].projectUuid,
                  preview_project_uuid |-> dargs[c].previewProjectUuid,
                  content_mapping |-> contentMapping(c),
                  xmin |-> c] >>)
    /\ UNCHANGED loc

CommitUpsertingRecord(c) ==
    /\ dpc[c] = "commit"
    /\ db' = [t \in TableNames |->
                IF t = "preview_content"
                THEN { m \in db[t] : \/ m.project_uuid # dargs[c].projectUuid
                                     \/ m.preview_project_uuid # dargs[c].previewProjectUuid }
                     \cup wrote[c][t]
                ELSE db[t] \cup wrote[c][t]]
    /\ dpc' = [dpc EXCEPT ![c] = "done"]
    /\ UNCHANGED <<seq, dargs, wrote, loc, derr, lockVars, cacheVars, mergeVars, accessVars, projectVars>>

(* The callback resolved: knex commits, and every row the transaction      *)
(* inserted becomes visible to the other sessions at once.                 *)
Commit(c) ==
    /\ dpc[c] = "commit"
    /\ db' = [t \in TableNames |-> db[t] \cup wrote[c][t]]
    /\ dpc' = [dpc EXCEPT ![c] = "done"]
    /\ UNCHANGED <<seq, dargs, wrote, loc, derr, lockVars, cacheVars, mergeVars, accessVars, projectVars>>

(* Any awaited statement, and the commit, may be rejected by the store     *)
(* (a constraint, a lost connection): the callback rejects.                *)
StatementFails(c) ==
    /\ InTransaction(c)
    /\ Throw(c, "DatabaseError")

InitDupVars ==
    /\ seq = InitialSeq(db)
    /\ dpc = [c \in DupCalls |-> "idle"]
    /\ dargs = [c \in DupCalls |-> [projectUuid |-> MissingUuid, previewProjectUuid |-> MissingUuid]]
    /\ wrote = [c \in DupCalls |-> EmptyTables]
    /\ loc = [c \in DupCalls |-> NoLocals]
    /\ derr = [c \in DupCalls |-> "none"]

NextDup ==
    \E c \in DupCalls :
        \/ duplicateContent(c)
        \/ Resolve(c)
        \/ CopySpaces(c)
        \/ CopySpaceShares(c)
        \/ CopyCharts(c)
        \/ CopyChartVersions(c)
        \/ copyChartVersionContent(c)
        \/ CopyDashboards(c)
        \/ CopyDashboardVersions(c)
        \/ CopyDashboardTiles(c)
        \/ copyDashboardTileContent(c)
        \/ InsertPreviewContent(c)
        \/ Commit(c)
        \/ StatementFails(c)

----------------------------------------------------------------------------
(* The cache: saveExploresToCache, getExploresFromCache,                   *)
(* saveWarehouseToCache, getWarehouseFromCache.  Each is one statement on  *)
(* this.database (no transaction), which the store runs atomically, and    *)
(* the return of its result: concurrent calls interleave as the sequence   *)
(* of their statements, in any order.                                      *)

CachedExploresTableName == "cached_explores"
CachedWarehouseTableName == "cached_warehouse"

CacheTables == {CachedExploresTableName, CachedWarehouseTableName}

(* The jsonb column of each table *)
CacheColumn(t) == IF t = CachedExploresTableName THEN "explores" ELSE "warehouse"

CacheInputs == {SourceUuid, PreviewUuid}

(* JavaScript's undefined, as the value of a property *)
Undefined == "undefined"

(* Explores as the compiler hands them over: plain objects, whose optional *)
(* properties may be present with the value undefined.                     *)
ExploreA == [name |-> "a", label |-> "A", ymlPath |-> "a.yml"]
ExploreB == [name |-> "b", label |-> "B", ymlPath |-> Undefined]

ExploresSnapshots == { <<ExploreA>>, <<ExploreA, ExploreB>> }

(* Warehouse catalogs, by their leaves: path of a column -> its type *)
WarehouseSnapshots ==
    { [orders_id |-> "number"], [orders_id |-> "number", customers_name |-> "string"] }

Snapshots(t) == IF t = CachedExploresTableName THEN ExploresSnapshots ELSE WarehouseSnapshots

(* JSON.stringify of an object: the members whose value is not undefined, *)
(* as the set of "key": value pairs of the JSON text.                      *)
StringifyObject(o) == { <<k, o[k]>> : k \in { j \in DOMAIN o : o[j] # Undefined } }

(* JSON.stringify(explores), an array of objects, and                      *)
(* JSON.stringify(warehouse), an object                                    *)
JSONStringify(t, snapshot) ==
    IF t = CachedExploresTableName
    THEN [i \in DOMAIN snapshot |-> StringifyObject(snapshot[i])]
    ELSE StringifyObject(snapshot)

(* What the driver makes of a jsonb value it reads *)
ParseObject(members) ==
    [k \in { m[1] : m \in members } |-> (CHOOSE m \in members : m[1] = k)[2]]

JSONParse(t, text) ==
    IF t = CachedExploresTableName
    THEN [i \in DOMAIN text |-> ParseObject(text[i])]
    ELSE ParseObject(text)

CacheRow(t, projectUuid, text) == (CacheColumn(t) :> text) @@ [project_uuid |-> projectUuid]

(* A row as the driver returns it *)
ParseRow(t, row) == CacheRow(t, row.project_uuid, JSONParse(t, row[CacheColumn(t)]))

InsertWithoutOnConflict(rows, row) == rows \cup {row}

OnConflictIgnore(rows, row) ==
    IF \E r \in rows : r.project_uuid = row.project_uuid THEN rows ELSE rows \cup {row}

(* insert(row).onConflict('project_uuid').merge(): the row replaces the    *)
(* row of the same project_uuid, every inserted column overwritten.        *)
OnConflictMerge(rows, row) == { r \in rows : r.project_uuid # row.project_uuid } \cup {row}

NoResult == [op |-> "none", table |-> "", projectUuid |-> "", kind |-> "none", value |-> Undefined]

ThrowWhenEmpty(t, rows) ==
    IF rows = {} THEN { [kind |-> "threw", value |-> "NotExistsError"] }
    ELSE { [kind |-> "value", value |-> JSONParse(t, r[CacheColumn(t)])] : r \in rows }

(* if (explores.length > 0) return explores[0].explores; return undefined; *)
(* with limit(1) and no ORDER BY any of the selected rows may be the first *)
FirstOrUndefined(t, rows) ==
    IF rows = {} THEN { [kind |-> "undefined", value |-> Undefined] }
    ELSE { [kind |-> "value", value |-> JSONParse(t, r[CacheColumn(t)])] : r \in rows }

TotalSaves ==
    LET n(t) == Len(saves[t][SourceUuid]) + Len(saves[t][PreviewUuid])
    IN n(CachedExploresTableName) + n(CachedWarehouseTableName)

(* The insert ... onConflict ... merge ... returning('*') statement and    *)
(* the return of its first row                                             *)
Upsert(t, projectUuid, snapshot) ==
    LET row == CacheRow(t, projectUuid, JSONStringify(t, snapshot)) IN
    /\ TotalSaves < MaxSaves
    /\ cached' = [cached EXCEPT ![t] = OnConflictMerge(@, row)]
    /\ kret' = [op |-> "save", table |-> t, projectUuid |-> projectUuid,
                kind |-> "row", value |-> ParseRow(t, row)]
    /\ saves' = [saves EXCEPT ![t][projectUuid] = Append(@, snapshot)]
    /\ UNCHANGED <<lockVars, dupVars, mergeVars, accessVars, projectVars>>

saveExploresToCache ==
    \E projectUuid \in CacheInputs, explores \in ExploresSnapshots :
        Upsert(CachedExploresTableName, projectUuid, explores)

saveWarehouseToCache ==
    \E projectUuid \in CacheInputs, warehouse \in WarehouseSnapshots :
        Upsert(CachedWarehouseTableName, projectUuid, warehouse)

(* The select ... where project_uuid ... limit(1) statement and the return *)
Select(t, projectUuid) ==
    /\ \E result \in FirstOrUndefined(t, { r \in cached[t] : r.project_uuid = projectUuid }) :
          kret' = [op |-> "get", table |-> t, projectUuid |-> projectUuid,
                   kind |-> result.kind, value |-> result.value]
    /\ UNCHANGED <<cached, saves, lockVars, dupVars, mergeVars, accessVars, projectVars>>

getExploresFromCache == \E projectUuid \in CacheInputs : Select(CachedExploresTableName, projectUuid)

getWarehouseFromCache == \E projectUuid \in CacheInputs : Select(CachedWarehouseTableName, projectUuid)

InitCacheVars ==
    /\ cached = [t \in CacheTables |-> {}]
    /\ kret = NoResult
    /\ saves = [t \in CacheTables |-> [u \in CacheInputs |-> <<>>]]

NextCache ==
    \/ saveExploresToCache
    \/ saveWarehouseToCache
    \/ getExploresFromCache
    \/ getWarehouseFromCache

----------------------------------------------------------------------------
(* The secret merge: mergeMissingDbtConfigSecrets and                      *)
(* mergeMissingWarehouseSecrets, pure functions of two configurations.  A  *)
(* configuration is an object: a function from the names of its own        *)
(* properties, type among them, to their values.  The two lists of secret  *)
(* property names are imported from @lightdash/common; the model takes     *)
(* them to be any lists over the property names, chosen once.              *)

ConfigKeys == {"k1", "k2"}

ConfigValues == {"", "x", "y"}

DbtTypes == {"dbt", "github"}

WarehouseTypes == {"postgres", "bigquery"}

Configs(types) ==
    { o \in UNION { [{"type"} \cup K -> types \cup ConfigValues] : K \in SUBSET ConfigKeys } :
        /\ o["type"] \in types
        /\ \A k \in DOMAIN o \ {"type"} : o[k] \in ConfigValues }

FieldNameLists ==
    { l \in UNION { [1..n -> ConfigKeys] : n \in 0..Cardinality(ConfigKeys) } :
        \A a, b \in 1..Len(l) : a # b => l[a] # l[b] }

(* o[k]: undefined when o has no property k *)
Member(o, k) == IF k \in DOMAIN o THEN o[k] ELSE Undefined

TruthyUnlessUndefined(v) == v # Undefined

(* What if (v) takes for true: undefined and the empty string are falsy *)
Truthy(v) == v \notin {Undefined, ""}

(* { ...a, ...b } *)
Spread(a, b) == [k \in DOMAIN a \cup DOMAIN b |-> IF k \in DOMAIN b THEN b[k] ELSE a[k]]

EmptyObject == [k \in {} |-> Undefined]

RECURSIVE ReduceSecretsOverwriting(_, _, _, _)
ReduceSecretsOverwriting(names, incompleteConfig, completeConfig, sum) ==
    IF names = <<>> THEN sum
    ELSE LET secretKey == Head(names)
             next == IF Truthy(Member(completeConfig, secretKey))
                     THEN Spread(sum, [k \in {secretKey} |-> Member(completeConfig, secretKey)])
                     ELSE sum
         IN ReduceSecretsOverwriting(Tail(names), incompleteConfig, completeConfig, next)

(* names.reduce((sum, secretKey) => ..., sum) *)
RECURSIVE ReduceSecrets(_, _, _, _)
ReduceSecrets(names, incompleteConfig, completeConfig, sum) ==
    IF names = <<>> THEN sum
    ELSE LET secretKey == Head(names)
             next == IF ~Truthy(Member(incompleteConfig, secretKey))
                        /\ Truthy(Member(completeConfig, secretKey))
                     THEN Spread(sum, [k \in {secretKey} |-> Member(completeConfig, secretKey)])
                     ELSE sum
         IN ReduceSecrets(Tail(names), incompleteConfig, completeConfig, next)

MergeDbtOverComplete(incompleteConfig, completeConfig) ==
    IF incompleteConfig["type"] # completeConfig["type"]
    THEN incompleteConfig
    ELSE Spread(completeConfig, incompleteConfig)

mergeMissingDbtConfigSecrets(incompleteConfig, completeConfig) ==
    IF incompleteConfig["type"] # completeConfig["type"]
    THEN incompleteConfig
    ELSE Spread(incompleteConfig,
                ReduceSecrets(sensitiveDbtCredentialsFieldNames, incompleteConfig,
                              completeConfig, EmptyObject))

MergeWarehouseWhateverTheType(incompleteConfig, completeConfig) ==
    Spread(incompleteConfig,
           ReduceSecrets(sensitiveCredentialsFieldNames, incompleteConfig,
                         completeConfig, EmptyObject))

mergeMissingWarehouseSecrets(incompleteConfig, completeConfig) ==
    IF incompleteConfig["type"] # completeConfig["type"]
    THEN incompleteConfig
    ELSE Spread(incompleteConfig,
                ReduceSecrets(sensitiveCredentialsFieldNames, incompleteConfig,
                              completeConfig, EmptyObject))

NoMerge == [fn |-> "none", names |-> <<>>, incompleteConfig |-> EmptyObject,
            completeConfig |-> EmptyObject, result |-> EmptyObject]

(* The functions are pure: a behaviour makes one call, of either, with any *)
(* two configurations.                                                     *)

(* A call of mergeMissingDbtConfigSecrets and its return *)
MergeDbtConfig ==
    /\ mret = NoMerge
    /\ \E incompleteConfig \in Configs(DbtTypes), completeConfig \in Configs(DbtTypes) :
          mret' = [fn |-> "mergeMissingDbtConfigSecrets",
                   names |-> sensitiveDbtCredentialsFieldNames,
                   incompleteConfig |-> incompleteConfig, completeConfig |-> completeConfig,
                   result |-> mergeMissingDbtConfigSecrets(incompleteConfig, completeConfig)]
    /\ UNCHANGED <<sensitiveDbtCredentialsFieldNames, sensitiveCredentialsFieldNames,
                   lockVars, dupVars, cacheVars, accessVars, projectVars>>

(* A call of mergeMissingWarehouseSecrets and its return *)
MergeWarehouse ==
    /\ mret = NoMerge
    /\ \E incompleteConfig \in Configs(WarehouseTypes), completeConfig \in Configs(WarehouseTypes) :
          mret' = [fn |-> "mergeMissingWarehouseSecrets",
                   names |-> sensitiveCredentialsFieldNames,
                   incompleteConfig |-> incompleteConfig, completeConfig |-> completeConfig,
                   result |-> mergeMissingWarehouseSecrets(incompleteConfig, completeConfig)]
    /\ UNCHANGED <<sensitiveDbtCredentialsFieldNames, sensitiveCredentialsFieldNames,
                   lockVars, dupVars, cacheVars, accessVars, projectVars>>

InitMergeVars ==
    /\ sensitiveDbtCredentialsFieldNames \in FieldNameLists
    /\ sensitiveCredentialsFieldNames \in FieldNameLists
    /\ mret = NoMerge

(* The lists where the other parts of the model run: they never read them *)
MergeUnused ==
    /\ sensitiveDbtCredentialsFieldNames = <<"k1">>
    /\ sensitiveCredentialsFieldNames = <<"k1">>
    /\ mret = NoMerge

NextMerge == MergeDbtConfig \/ MergeWarehouse

----------------------------------------------------------------------------
(* Project access: createProjectAccess.  Every statement runs on           *)
(* this.database, outside any transaction, so each is atomic and committed *)
(* at once, and concurrent calls interleave statement by statement.        *)

(* users, emails and the organization each user is a member of: two users  *)
(* of the organization that owns the projects and one user of another.     *)
Users == { [user_id |-> 1], [user_id |-> 2] }

Emails ==
    { [user_id |-> 1, email |-> "member@one"],
      [user_id |-> 2, email |-> "outsider@two"] }

OrganizationMemberships ==
    { [user_id |-> 1, organization_id |-> 1],
      [user_id |-> 2, organization_id |-> 2] }

(* projects.organization_id: every project belongs to organization 1 *)
ProjectOrganizations == { [project_id |-> p, organization_id |-> 1] : p \in ProjectIds }

UnknownEmail == "nobody@nowhere"

ProjectMemberRoles == {"viewer", "editor"}

AccessInputs ==
    [projectUuid : {SourceUuid, MissingUuid},
     email : { e.email : e \in Emails } \cup {UnknownEmail},
     role : ProjectMemberRoles]

(* The unique constraint on project_memberships (project_id, user_id) *)
project_memberships_project_id_user_id_unique == "project_memberships_project_id_user_id_unique"

NoConstraint(rows, row) == ""

(* The constraint an insert of row into rows violates, "" when none *)
ViolatedConstraint(rows, row) ==
    IF \E r \in rows : r.project_id = row.project_id /\ r.user_id = row.user_id
    THEN project_memberships_project_id_user_id_unique
    ELSE ""

UsersWhateverTheEmail(email) == Users

(* users leftJoin emails ... select users.user_id where email = email *)
UsersByEmail(email) ==
    { u \in Users : \E e \in Emails : e.user_id = u.user_id /\ e.email = email }

CatchAndRethrow(error, constraint) == error

(* The catch block: what the call throws for an error raised in the try *)
Catch(error, constraint) ==
    IF error = "DatabaseError" /\ constraint = project_memberships_project_id_user_id_unique
    THEN "AlreadyExistsError"
    ELSE error

AccessThrow(c, error, constraint) ==
    /\ apc' = [apc EXCEPT ![c] = "failed"]
    /\ aout' = [aout EXCEPT ![c] = Catch(error, constraint)]

createProjectAccess(c) ==
    /\ apc[c] = "idle"
    /\ \E a \in AccessInputs : aargs' = [aargs EXCEPT ![c] = a]
    /\ apc' = [apc EXCEPT ![c] = "project"]
    /\ aloc' = [aloc EXCEPT ![c].during = { o \in AccessCalls : apc[o] \in {"project", "user", "insert"} }]
    /\ UNCHANGED <<memberships, aout, ainserted, lockVars, dupVars, cacheVars, mergeVars,
                   projectVars>>

(* const [project] = await ... select('project_id').where('project_uuid', projectUuid) *)
SelectProject(c) ==
    /\ apc[c] = "project"
    /\ aloc' = [aloc EXCEPT ![c].project = { p \in Projects : p.project_uuid = aargs[c].projectUuid }]
    /\ apc' = [apc EXCEPT ![c] = "user"]
    /\ UNCHANGED <<memberships, aargs, aout, ainserted, lockVars, dupVars, cacheVars, mergeVars,
                   projectVars>>

(* const [user] = await ...; if (user === undefined) throw new NotExistsError *)
SelectUser(c) ==
    /\ apc[c] = "user"
    /\ LET users == UsersByEmail(aargs[c].email) IN
       IF users = {}
       THEN AccessThrow(c, "NotExistsError", "") /\ UNCHANGED aloc
       ELSE /\ \E user \in users : aloc' = [aloc EXCEPT ![c].user = {user}]
            /\ apc' = [apc EXCEPT ![c] = "insert"]
            /\ UNCHANGED aout
    /\ UNCHANGED <<memberships, aargs, ainserted, lockVars, dupVars, cacheVars, mergeVars,
                   projectVars>>

(* await this.database('project_memberships').insert({ project_id:         *)
(* project.project_id, role, user_id: user.user_id }): reading project_id  *)
(* of an undefined project is a TypeError, raised before the statement.    *)
InsertMembership(c) ==
    /\ apc[c] = "insert"
    /\ IF aloc[c].project = {}
       THEN AccessThrow(c, "TypeError", "") /\ UNCHANGED <<memberships, ainserted>>
       ELSE LET project == CHOOSE p \in aloc[c].project : TRUE
                user == CHOOSE u \in aloc[c].user : TRUE
                row == [project_id |-> project.project_id, role |-> aargs[c].role,
                        user_id |-> user.user_id]
                constraint == ViolatedConstraint(memberships, row)
            IN IF constraint # ""
               THEN AccessThrow(c, "DatabaseError", constraint) /\ UNCHANGED <<memberships, ainserted>>
               ELSE /\ memberships' = memberships \cup {row}
                    /\ ainserted' = [ainserted EXCEPT ![c] = @ \cup {row}]
                    /\ apc' = [apc EXCEPT ![c] = "done"]
                    /\ aout' = [aout EXCEPT ![c] = "ok"]
    /\ UNCHANGED <<aargs, aloc, lockVars, dupVars, cacheVars, mergeVars, projectVars>>

(* The table before the calls: empty, or user 1 already a viewer of the    *)
(* source project.                                                         *)
InitialMemberships == { {}, { [project_id |-> 1, role |-> "viewer", user_id |-> 1] } }

InitAccessCalls ==
    /\ apc = [c \in AccessCalls |-> "idle"]
    /\ aargs = [c \in AccessCalls |-> [projectUuid |-> MissingUuid, email |-> UnknownEmail, role |-> "viewer"]]
    /\ aloc = [c \in AccessCalls |-> [project |-> {}, user |-> {}, during |-> {}]]
    /\ aout = [c \in AccessCalls |-> "none"]
    /\ ainserted = [c \in AccessCalls |-> {}]

InitAccessVars == memberships \in InitialMemberships /\ InitAccessCalls

AccessUnused == memberships = {} /\ InitAccessCalls

NextAccess ==
    \E c \in AccessCalls :
        \/ createProjectAccess(c)
        \/ SelectProject(c)
        \/ SelectUser(c)
        \/ InsertMembership(c)

----------------------------------------------------------------------------
(* create and update.  The calls are made one after the other; pwrote is   *)
(* what the statements run on trx see and write, which the commit makes    *)
(* the content of the store and a rollback discards.                       *)

ProjectTableNames ==
    {"organizations", "projects", "warehouse_credentials", "spaces", "dbt_cloud_integrations"}

OrganizationUuid == "org"
MissingOrganizationUuid == "missing-org"

DbtConnection1 == [type |-> "dbt", k1 |-> "x"]
DbtConnection2 == [type |-> "github", k1 |-> "y"]
WarehouseConnection1 == [type |-> "postgres", k1 |-> "x"]
WarehouseConnection2 == [type |-> "bigquery", k1 |-> "y"]

(* this.encryptionService.encrypt(JSON.stringify(o)) when it returns *)
Encrypt(o) == <<"encrypted", StringifyObject(o)>>

(* The project_uuid column's default: a uuid no other row has *)
NewProjectUuid(project_id) == "project-" \o ToString(project_id)

SourceProjectRow ==
    [project_id |-> 1, project_uuid |-> SourceUuid, name |-> "a", project_type |-> "DEFAULT",
     organization_id |-> 1, dbt_connection_type |-> "dbt",
     dbt_connection |-> Encrypt(DbtConnection1), copied_from_project_uuid |-> Undefined]

SourceWarehouseRow ==
    [project_id |-> 1, warehouse_type |-> "postgres",
     encrypted_credentials |-> Encrypt(WarehouseConnection1)]

(* The store before the calls: one organization with one project, which    *)
(* has a warehouse connection or not yet.                                  *)
InitialProjectStore(w) ==
    [t \in ProjectTableNames |->
        CASE t = "organizations" -> { [organization_id |-> 1, organization_uuid |-> OrganizationUuid] }
          [] t = "projects" -> {SourceProjectRow}
          [] t = "warehouse_credentials" -> w
          [] OTHER -> {}]

InitialProjectStores == { InitialProjectStore(w) : w \in { {}, {SourceWarehouseRow} } }

CreateProjects ==
    { [name |-> "b", type |-> "DEFAULT", dbtConnection |-> DbtConnection1,
       warehouseConnection |-> WarehouseConnection1, copiedFromProjectUuid |-> Undefined],
      [name |-> "b", type |-> "PREVIEW", dbtConnection |-> DbtConnection1,
       warehouseConnection |-> WarehouseConnection1, copiedFromProjectUuid |-> SourceUuid],
      [name |-> "c", type |-> "PREVIEW", dbtConnection |-> DbtConnection2,
       warehouseConnection |-> WarehouseConnection2, copiedFromProjectUuid |-> MissingUuid] }

UpdateProjects ==
    { [name |-> "b", dbtConnection |-> DbtConnection2, warehouseConnection |-> WarehouseConnection2],
      [name |-> "a", dbtConnection |-> DbtConnection1, warehouseConnection |-> WarehouseConnection1] }

NoProjectData == [name |-> ""]

NoProjectLoc ==
    [before |-> [t \in ProjectTableNames |-> {}], after |-> [t \in ProjectTableNames |-> {}],
     orgs |-> {}, encryptedCredentials |-> <<>>, copiedProjects |-> {}, project |-> {},
     serviceFailed |-> FALSE]

NoProjectOut == [result |-> "none", value |-> Undefined]

WhereAnyProject(rows, projectUuid) == rows

(* The rows a where('project_uuid', projectUuid) clause selects *)
WhereProjectUuid(rows, projectUuid) == { r \in rows : r.project_uuid = projectUuid }

(* insert(row).onConflict('project_id').merge() *)
OnConflictProjectIdMerge(rows, row) == { r \in rows : r.project_id # row.project_id } \cup {row}

(* An error thrown by the callback of this.database.transaction, or before *)
(* it: knex rolls the transaction back and the call throws the error.      *)
ProjectThrow(c, error) ==
    /\ ppc' = [ppc EXCEPT ![c] = "failed"]
    /\ pout' = [pout EXCEPT ![c] = [result |-> error, value |-> Undefined]]
    /\ ploc' = [ploc EXCEPT ![c].after = pdb]
    /\ UNCHANGED <<pdb, pseq, pargs, pwrote>>

(* The encryption service throws and the call ends with error: the error   *)
(* a catch around the service throws in its place, or the exception of the *)
(* service itself where nothing catches it.  serviceFailed remembers that  *)
(* the service is what failed.                                             *)
EncryptionServiceFails(c, error) ==
    /\ ppc' = [ppc EXCEPT ![c] = "failed"]
    /\ pout' = [pout EXCEPT ![c] = [result |-> error, value |-> Undefined]]
    /\ ploc' = [ploc EXCEPT ![c].after = pdb, ![c].serviceFailed = TRUE]
    /\ UNCHANGED <<pdb, pseq, pargs, pwrote>>

ProjectCall(c, op, uuid, data) ==
    /\ ppc[c] = "idle"
    /\ \A o \in ProjectCalls : o < c => ppc[o] \in {"done", "failed"}
    /\ pargs' = [pargs EXCEPT ![c] = [op |-> op, uuid |-> uuid, data |-> data]]
    /\ ploc' = [ploc EXCEPT ![c].before = pdb]
    /\ pwrote' = [pwrote EXCEPT ![c] = pdb]
    /\ UNCHANGED <<pdb, pseq, pout>>

create(c) ==
    /\ \E organizationUuid \in {OrganizationUuid, MissingOrganizationUuid}, data \in CreateProjects :
          ProjectCall(c, "create", organizationUuid, data)
    /\ ppc' = [ppc EXCEPT ![c] = "orgs"]
    /\ UNCHANGED <<lockVars, dupVars, cacheVars, mergeVars, accessVars>>

update(c) ==
    /\ \E projectUuid \in {SourceUuid, MissingUuid}, data \in UpdateProjects :
          ProjectCall(c, "update", projectUuid, data)
    /\ ppc' = [ppc EXCEPT ![c] = "encrypt"]
    /\ UNCHANGED <<lockVars, dupVars, cacheVars, mergeVars, accessVars>>

(* const orgs = await this.database('organizations').where(...);           *)
(* if (orgs.length === 0) throw new NotExistsError                         *)
SelectOrgs(c) ==
    /\ ppc[c] = "orgs"
    /\ LET orgs == { o \in pdb["organizations"] : o.organization_uuid = pargs[c].uuid } IN
       IF orgs = {}
       THEN ProjectThrow(c, "NotExistsError")
       ELSE /\ ploc' = [ploc EXCEPT ![c].orgs = orgs]
            /\ ppc' = [ppc EXCEPT ![c] = "encrypt"]
            /\ UNCHANGED <<pdb, pseq, pargs, pwrote, pout>>
    /\ UNCHANGED <<lockVars, dupVars, cacheVars, mergeVars, accessVars>>

(* try { encryptedCredentials = encrypt(JSON.stringify(data.dbtConnection)) } *)
(* catch (e) { throw new UnexpectedServerError }: the service returns or   *)
(* throws.                                                                 *)
EncryptDbtConnection(c) ==
    /\ ppc[c] = "encrypt"
    /\ \/ /\ ploc' = [ploc EXCEPT ![c].encryptedCredentials = Encrypt(pargs[c].data.dbtConnection)]
          /\ ppc' = [ppc EXCEPT ![c] = IF pargs[c].op = "create" THEN "copied" ELSE "updateProjects"]
          /\ UNCHANGED <<pdb, pseq, pargs, pwrote, pout>>
       \/ EncryptionServiceFails(c, "UnexpectedServerError")
    /\ UNCHANGED <<lockVars, dupVars, cacheVars, mergeVars, accessVars>>

(* Make sure the project to copy exists and is owned by the same organization *)
SelectCopiedProjects(c) ==
    /\ ppc[c] = "copied"
    /\ LET org == CHOOSE o \in ploc[c].orgs : TRUE
           copiedProjects ==
               IF Truthy(pargs[c].data.copiedFromProjectUuid)
               THEN { p \in WhereProjectUuid(pwrote[c]["projects"], pargs[c].data.copiedFromProjectUuid) :
                        p.organization_id = org.organization_id }
               ELSE {}
       IN ploc' = [ploc EXCEPT ![c].copiedProjects = copiedProjects]
    /\ ppc' = [ppc EXCEPT ![c] = "insertProject"]
    /\ UNCHANGED <<pdb, pseq, pargs, pwrote, pout>>
    /\ UNCHANGED <<lockVars, dupVars, cacheVars, mergeVars, accessVars>>

(* const [project] = await trx('projects').insert({...}).returning('*') *)
InsertProject(c) ==
    /\ ppc[c] = "insertProject"
    /\ LET org == CHOOSE o \in ploc[c].orgs : TRUE
           data == pargs[c].data
           project ==
               [project_id |-> pseq, project_uuid |-> NewProjectUuid(pseq), name |-> data.name,
                project_type |-> data.type, organization_id |-> org.organization_id,
                dbt_connection_type |-> data.dbtConnection.type,
                dbt_connection |-> ploc[c].encryptedCredentials,
                copied_from_project_uuid |->
                    IF Cardinality(ploc[c].copiedProjects) = 1
                    THEN (CHOOSE p \in ploc[c].copiedProjects : TRUE).project_uuid
                    ELSE Undefined]
       IN /\ pwrote' = [pwrote EXCEPT ![c]["projects"] = @ \cup {project}]
          /\ ploc' = [ploc EXCEPT ![c].project = {project}]
    /\ pseq' = pseq + 1
    /\ ppc' = [ppc EXCEPT ![c] = "upsertWarehouseConnection"]
    /\ UNCHANGED <<pdb, pargs, pout>>
    /\ UNCHANGED <<lockVars, dupVars, cacheVars, mergeVars, accessVars>>

(* const projects = await trx('projects').update({...}).where(...)         *)
(* .returning('*'); if (projects.length === 0) throw new                   *)
(* UnexpectedServerError                                                   *)
UpdateProjectRows(c) ==
    /\ ppc[c] = "updateProjects"
    /\ LET data == pargs[c].data
           matched == WhereProjectUuid(pwrote[c]["projects"], pargs[c].uuid)
           updated(r) == [r EXCEPT !.name = data.name,
                                   !.dbt_connection_type = data.dbtConnection.type,
                                   !.dbt_connection = ploc[c].encryptedCredentials]
           projects == { updated(r) : r \in matched }
       IN IF projects = {}
          THEN ProjectThrow(c, "UnexpectedServerError")
          ELSE /\ pwrote' = [pwrote EXCEPT ![c]["projects"] = (@ \ matched) \cup projects]
               /\ ploc' = [ploc EXCEPT ![c].project = projects]
               /\ ppc' = [ppc EXCEPT ![c] = "upsertWarehouseConnection"]
               /\ UNCHANGED <<pdb, pseq, pargs, pout>>
    /\ UNCHANGED <<lockVars, dupVars, cacheVars, mergeVars, accessVars>>

(* upsertWarehouseConnection(trx, project.project_id, data.warehouseConnection) *)
upsertWarehouseConnection(c) ==
    /\ ppc[c] = "upsertWarehouseConnection"
    /\ LET data == pargs[c].data.warehouseConnection
           project == CHOOSE p \in ploc[c].project : TRUE
           row == [project_id |-> project.project_id, warehouse_type |-> data.type,
                   encrypted_credentials |-> Encrypt(data)]
       IN \/ /\ pwrote' = [pwrote EXCEPT ![c]["warehouse_credentials"] = OnConflictProjectIdMerge(@, row)]
             /\ ppc' = [ppc EXCEPT ![c] = IF pargs[c].op = "create" THEN "insertSpace" ELSE "commit"]
             /\ UNCHANGED <<pdb, pseq, pargs, ploc, pout>>
          \/ EncryptionServiceFails(c, "UnexpectedServerError")
    /\ UNCHANGED <<lockVars, dupVars, cacheVars, mergeVars, accessVars>>

(* await trx('spaces').insert({ project_id, name: 'Shared', is_private: false }) *)
InsertSharedSpace(c) ==
    /\ ppc[c] = "insertSpace"
    /\ LET project == CHOOSE p \in ploc[c].project : TRUE
           row == [project_id |-> project.project_id, name |-> "Shared", is_private |-> FALSE]
       IN pwrote' = [pwrote EXCEPT ![c]["spaces"] = @ \cup {row}]
    /\ ppc' = [ppc EXCEPT ![c] = "commit"]
    /\ UNCHANGED <<pdb, pseq, pargs, ploc, pout>>
    /\ UNCHANGED <<lockVars, dupVars, cacheVars, mergeVars, accessVars>>

(* The callback resolves: knex commits, create returns project.project_uuid *)
(* and update returns nothing.                                             *)
ProjectCommit(c) ==
    /\ ppc[c] = "commit"
    /\ pdb' = pwrote[c]
    /\ ploc' = [ploc EXCEPT ![c].after = pwrote[c]]
    /\ ppc' = [ppc EXCEPT ![c] = "done"]
    /\ pout' = [pout EXCEPT ![c] =
                   [result |-> "ok",
                    value |-> IF pargs[c].op = "create"
                              THEN (CHOOSE p \in ploc[c].project : TRUE).project_uuid
                              ELSE Undefined]]
    /\ UNCHANGED <<pseq, pargs, pwrote>>
    /\ UNCHANGED <<lockVars, dupVars, cacheVars, mergeVars, accessVars>>

(* this.encryptionService.decrypt(...) when it returns, and JSON.parse of it *)
Decrypt(encrypted) == encrypted[2]

ProjectUuidInputs == {SourceUuid, OtherUuid, MissingUuid}

DbtCloudIntegrations ==
    { [metricsJobId |-> "job1", serviceToken |-> "token1"],
      [metricsJobId |-> "job2", serviceToken |-> "token2"] }

(* The call returns value; it has written nothing *)
ProjectReturn(c, value) ==
    /\ ppc' = [ppc EXCEPT ![c] = "done"]
    /\ pout' = [pout EXCEPT ![c] = [result |-> "ok", value |-> value]]
    /\ ploc' = [ploc EXCEPT ![c].after = pdb]
    /\ UNCHANGED <<pdb, pseq, pargs, pwrote>>

getWithSensitiveFields(c) ==
    /\ \E projectUuid \in ProjectUuidInputs :
          ProjectCall(c, "getWithSensitiveFields", projectUuid, NoProjectData)
    /\ ppc' = [ppc EXCEPT ![c] = "getWithSensitiveFields"]
    /\ UNCHANGED <<lockVars, dupVars, cacheVars, mergeVars, accessVars>>

(* const project = await this.getWithSensitiveFields(projectUuid) *)
get(c) ==
    /\ \E projectUuid \in ProjectUuidInputs : ProjectCall(c, "get", projectUuid, NoProjectData)
    /\ ppc' = [ppc EXCEPT ![c] = "getWithSensitiveFields"]
    /\ UNCHANGED <<lockVars, dupVars, cacheVars, mergeVars, accessVars>>

(* projects leftJoin warehouse_credentials leftJoin organizations          *)
(* where('project_uuid', projectUuid)                                      *)
ProjectsWithCredentials(projectUuid) ==
    { [project |-> p,
       warehouse |-> { w \in pdb["warehouse_credentials"] : w.project_id = p.project_id },
       organization |-> { o \in pdb["organizations"] : o.organization_id = p.organization_id }] :
         p \in WhereProjectUuid(pdb["projects"], projectUuid) }

(* What getWithSensitiveFields returns when both decryptions succeed *)
ProjectWithSensitiveFields(joined) ==
    LET result == [organizationUuid |-> (CHOOSE o \in joined.organization : TRUE).organization_uuid,
                   projectUuid |-> joined.project.project_uuid,
                   name |-> joined.project.name,
                   type |-> joined.project.project_type,
                   dbtConnection |-> ParseObject(Decrypt(joined.project.dbt_connection))]
    IN IF joined.warehouse = {}
       THEN result
       ELSE result @@ [warehouseConnection |->
                          ParseObject(Decrypt((CHOOSE w \in joined.warehouse : TRUE).encrypted_credentials))]

FilterNoFieldNames(o, names) == o

(* Object.fromEntries(Object.entries(o).filter(([key]) => !names.includes(key))) *)
FilterFieldNames(o, names) == [k \in DOMAIN o \ Range(names) |-> o[k]]

(* What get makes of the result of getWithSensitiveFields *)
ProjectWithoutSensitiveFields(project) ==
    [organizationUuid |-> project.organizationUuid,
     projectUuid |-> project.projectUuid,
     name |-> project.name,
     type |-> project.type,
     dbtConnection |-> FilterFieldNames(project.dbtConnection, sensitiveDbtCredentialsFieldNames),
     warehouseConnection |->
         IF "warehouseConnection" \in DOMAIN project
         THEN FilterFieldNames(project.warehouseConnection, sensitiveCredentialsFieldNames)
         ELSE Undefined]

(* The body of getWithSensitiveFields: no project row is NotExistsError, a *)
(* decryption or a JSON.parse that throws is caught and becomes            *)
(* UnexpectedServerError.                                                  *)
SelectProjectWithCredentials(c) ==
    /\ ppc[c] = "getWithSensitiveFields"
    /\ LET projects == ProjectsWithCredentials(pargs[c].uuid) IN
       IF projects = {}
       THEN ProjectThrow(c, "NotExistsError")
       ELSE LET project == ProjectWithSensitiveFields(CHOOSE j \in projects : TRUE) IN
            \/ ProjectReturn(c, IF pargs[c].op = "get"
                                THEN ProjectWithoutSensitiveFields(project)
                                ELSE project)
            \/ EncryptionServiceFails(c, "UnexpectedServerError")
    /\ UNCHANGED <<lockVars, dupVars, cacheVars, mergeVars, accessVars>>

getWarehouseCredentialsForProject(c) ==
    /\ \E projectUuid \in ProjectUuidInputs :
          ProjectCall(c, "getWarehouseCredentialsForProject", projectUuid, NoProjectData)
    /\ ppc' = [ppc EXCEPT ![c] = "getWarehouseCredentialsForProject"]
    /\ UNCHANGED <<lockVars, dupVars, cacheVars, mergeVars, accessVars>>

(* table innerJoin projects where('project_uuid', projectUuid) *)
InnerJoinProjects(table, projectUuid) ==
    { r \in pdb[table] :
        \E p \in WhereProjectUuid(pdb["projects"], projectUuid) : p.project_id = r.project_id }

SelectWarehouseCredentials(c) ==
    /\ ppc[c] = "getWarehouseCredentialsForProject"
    /\ LET rows == InnerJoinProjects("warehouse_credentials", pargs[c].uuid) IN
       IF rows = {}
       THEN ProjectThrow(c, "NotExistsError")
       ELSE \/ ProjectReturn(c, ParseObject(Decrypt((CHOOSE r \in rows : TRUE).encrypted_credentials)))
            \/ EncryptionServiceFails(c, "UnexpectedServerError")
    /\ UNCHANGED <<lockVars, dupVars, cacheVars, mergeVars, accessVars>>

findDbtCloudIntegrationWithSecrets(c) ==
    /\ \E projectUuid \in ProjectUuidInputs :
          ProjectCall(c, "findDbtCloudIntegrationWithSecrets", projectUuid, NoProjectData)
    /\ ppc' = [ppc EXCEPT ![c] = "findDbtCloudIntegrationWithSecrets"]
    /\ UNCHANGED <<lockVars, dupVars, cacheVars, mergeVars, accessVars>>

(* The exception of the encryption service, where no catch wraps it *)
EncryptionServiceThrows == "Error"

(* const serviceToken = this.encryptionService.decrypt(row.service_token): *)
(* no try surrounds it, the exception of the service leaves the call.      *)
SelectDbtCloudIntegration(c) ==
    /\ ppc[c] = "findDbtCloudIntegrationWithSecrets"
    /\ LET rows == InnerJoinProjects("dbt_cloud_integrations", pargs[c].uuid) IN
       IF rows = {}
       THEN ProjectReturn(c, Undefined)
       ELSE LET row == CHOOSE r \in rows : TRUE IN
            \/ ProjectReturn(c, [metricsJobId |-> row.metrics_job_id,
                                 serviceToken |-> Decrypt(row.service_token)])
            \/ EncryptionServiceFails(c, EncryptionServiceThrows)
    /\ UNCHANGED <<lockVars, dupVars, cacheVars, mergeVars, accessVars>>

upsertDbtCloudIntegration(c) ==
    /\ \E projectUuid \in ProjectUuidInputs, integration \in DbtCloudIntegrations :
          ProjectCall(c, "upsertDbtCloudIntegration", projectUuid, integration)
    /\ ppc' = [ppc EXCEPT ![c] = "upsertDbtCloudIntegration"]
    /\ UNCHANGED <<lockVars, dupVars, cacheVars, mergeVars, accessVars>>

(* The body of upsertDbtCloudIntegration, outside any transaction: the     *)
(* project is selected, the token encrypted (no try surrounds it), and the *)
(* row inserted with onConflict('project_id').merge().                     *)
InsertDbtCloudIntegration(c) ==
    /\ ppc[c] = "upsertDbtCloudIntegration"
    /\ LET projects == WhereProjectUuid(pdb["projects"], pargs[c].uuid) IN
       IF projects = {}
       THEN ProjectThrow(c, "NotExistsError")
       ELSE LET project == CHOOSE p \in projects : TRUE
                row == [project_id |-> project.project_id,
                        service_token |-> <<"encrypted", pargs[c].data.serviceToken>>,
                        metrics_job_id |-> pargs[c].data.metricsJobId]
                inserted == [pdb EXCEPT !["dbt_cloud_integrations"] = OnConflictProjectIdMerge(@, row)]
            IN \/ /\ pdb' = inserted
                  /\ ploc' = [ploc EXCEPT ![c].after = inserted]
                  /\ ppc' = [ppc EXCEPT ![c] = "done"]
                  /\ pout' = [pout EXCEPT ![c] = [result |-> "ok", value |-> Undefined]]
                  /\ UNCHANGED <<pseq, pargs, pwrote>>
               \/ EncryptionServiceFails(c, EncryptionServiceThrows)
    /\ UNCHANGED <<lockVars, dupVars, cacheVars, mergeVars, accessVars>>


InitProjectCallVars ==
    /\ ppc = [c \in ProjectCalls |-> "idle"]
    /\ pargs = [c \in ProjectCalls |-> [op |-> "none", uuid |-> "", data |-> NoProjectData]]
    /\ ploc = [c \in ProjectCalls |-> NoProjectLoc]
    /\ pwrote = [c \in ProjectCalls |-> [t \in ProjectTableNames |-> {}]]
    /\ pout = [c \in ProjectCalls |-> NoProjectOut]

InitProjectCalls ==
    /\ pseq = 2
    /\ InitProjectCallVars

InitProjectVars == pdb \in InitialProjectStores /\ InitProjectCalls

ProjectUnused ==
    /\ pdb = InitialProjectStore({SourceWarehouseRow})
    /\ InitProjectCalls

(* A store with two projects of one organization, both the work of create *)
(* and update: the second project's configurations differ from the first  *)
(* project's in the value of one field, or have another type and no       *)
(* warehouse connection.                                                   *)
GetStore(dbtConnection, warehouse) ==
    [t \in ProjectTableNames |->
        CASE t = "organizations" -> { [organization_id |-> 1, organization_uuid |-> OrganizationUuid] }
          [] t = "projects" ->
                { [SourceProjectRow EXCEPT !.dbt_connection = Encrypt([type |-> "dbt", k1 |-> "x", k2 |-> "x"])],
                  [project_id |-> 2, project_uuid |-> OtherUuid, name |-> "a", project_type |-> "DEFAULT",
                   organization_id |-> 1, dbt_connection_type |-> dbtConnection.type,
                   dbt_connection |-> Encrypt(dbtConnection), copied_from_project_uuid |-> Undefined] }
          [] t = "warehouse_credentials" ->
                { [project_id |-> 1, warehouse_type |-> "postgres",
                   encrypted_credentials |-> Encrypt([type |-> "postgres", k1 |-> "x", k2 |-> "x"])] }
                \cup { [project_id |-> 2, warehouse_type |-> w.type, encrypted_credentials |-> Encrypt(w)] :
                          w \in warehouse }
          [] t = "spaces" ->
                { [project_id |-> i, name |-> "Shared", is_private |-> FALSE] : i \in 1..2 }
          [] OTHER -> {}]

GetStores ==
    { GetStore([type |-> "dbt", k1 |-> "y", k2 |-> "x"], {[type |-> "postgres", k1 |-> "y", k2 |-> "x"]}),
      GetStore([type |-> "dbt", k1 |-> "x", k2 |-> "y"], {[type |-> "postgres", k1 |-> "x", k2 |-> "y"]}),
      GetStore([type |-> "github", k1 |-> "x"], {}) }

InitGetVars == pdb \in GetStores /\ pseq = 3 /\ InitProjectCallVars

NextGet ==
    \E c \in ProjectCalls :
        \/ getWithSensitiveFields(c)
        \/ get(c)
        \/ SelectProjectWithCredentials(c)

NextProject ==
    \E c \in ProjectCalls :
        \/ create(c)
        \/ update(c)
        \/ SelectOrgs(c)
        \/ EncryptDbtConnection(c)
        \/ SelectCopiedProjects(c)
        \/ InsertProject(c)
        \/ UpdateProjectRows(c)
        \/ upsertWarehouseConnection(c)
        \/ InsertSharedSpace(c)
        \/ ProjectCommit(c)
        \/ getWithSensitiveFields(c)
        \/ get(c)
        \/ SelectProjectWithCredentials(c)
        \/ getWarehouseCredentialsForProject(c)
        \/ SelectWarehouseCredentials(c)
        \/ findDbtCloudIntegrationWithSecrets(c)
        \/ SelectDbtCloudIntegration(c)
        \/ upsertDbtCloudIntegration(c)
        \/ InsertDbtCloudIntegration(c)

----------------------------------------------------------------------------
(* Specifications *)

(* The parts a specification does not run stay as they start *)
OtherParts == MergeUnused /\ AccessUnused /\ ProjectUnused

Init == db \in Graphs /\ InitDupVars /\ InitLockVars /\ InitCacheVars /\ OtherParts

Next == NextLock \/ NextDup \/ NextCache \/ NextMerge \/ NextAccess \/ NextProject

Spec == Init /\ [][Next]_vars

(* The lock coordinator alone, over the store of an empty source project *)
InitLock ==
    /\ db = Graph(0, <<>>, <<>>, FALSE)
    /\ InitDupVars /\ InitLockVars /\ InitCacheVars /\ OtherParts

SpecLock == InitLock /\ [][NextLock]_vars

(* The lock coordinator with the progress its environment gives it: the    *)
(* store answers every statement, commit and rollback included, and an     *)
(* onLockFailed continuation settles.  Nothing makes an onLockAcquired     *)
(* continuation settle: the holder of a lock may keep it forever.          *)
OnLockFailedSettles(c) ==
    /\ lpc[c] = "onLockFailed"
    /\ ContinuationReturns(c) \/ ContinuationThrows(c)

(* The steps of a call that do not depend on onLockAcquired; the position  *)
(* of the call enables at most one of them.                                *)
LockProgress(c) ==
    \/ TryLock(c)
    \/ OnLockFailedSettles(c)
    \/ LockCommit(c)
    \/ LockRollback(c)

LockFairness == \A c \in LockCalls : WF_vars(LockProgress(c))

SpecLockLive == SpecLock /\ LockFairness

(* The cloner alone *)
SpecDup == Init /\ [][NextDup]_vars

(* The cache alone *)
SpecCache == InitLock /\ [][NextCache]_vars

InitRest == db = Graph(0, <<>>, <<>>, FALSE) /\ InitDupVars /\ InitLockVars /\ InitCacheVars

(* The secret merge alone, for every choice of the two lists *)
InitMerge == InitRest /\ InitMergeVars /\ AccessUnused /\ ProjectUnused

SpecMerge == InitMerge /\ [][NextMerge]_vars

(* Project access alone *)
InitAccess == InitRest /\ MergeUnused /\ InitAccessVars /\ ProjectUnused

SpecAccess == InitAccess /\ [][NextAccess]_vars

(* create and update alone *)
InitProject == InitRest /\ MergeUnused /\ AccessUnused /\ InitProjectVars

SpecProject == InitProject /\ [][NextProject]_vars

(* get and getWithSensitiveFields alone, for every choice of the two lists *)
InitGet == InitRest /\ InitMergeVars /\ AccessUnused /\ InitGetVars

SpecGet == InitGet /\ [][NextGet]_vars

----------------------------------------------------------------------------
(* Properties of the lock coordinator, stated for SpecLock *)

InsideOnLockAcquired(u) == { c \in LockCalls : lpc[c] = "onLockAcquired" /\ largs[c].projectUuid = u }

(* C1: mutual exclusion of tryAcquireProjectLock.  For every project, at   *)
(* most one call is inside its onLockAcquired continuation at any time; a  *)
(* call whose try-lock statement met the lock held by another transaction  *)
(* never runs onLockAcquired, and runs onLockFailed when it was supplied.  *)
C1_MutualExclusion ==
    /\ \A u \in LockInputs : Cardinality(InsideOnLockAcquired(u)) <= 1
    /\ \A c \in LockCalls :
          lattempt[c] = "held" =>
             /\ "onLockAcquired" \notin lran[c]
             /\ largs[c].onLockFailed => "onLockFailed" \in lran[c]

C1_Witness ==
    \E c1, c2 \in LockCalls :
        /\ c1 # c2
        /\ largs[c1].projectUuid = SourceUuid /\ largs[c2].projectUuid = SourceUuid
        /\ lpc[c1] = "onLockAcquired"
        /\ lattempt[c2] = "held" /\ lpc[c2] = "onLockFailed"

----------------------------------------------------------------------------
(* Properties of the cloner, stated for SpecDup, over                      *)
(* the committed tables db, the rows wrote[c] a call inserted and the      *)
(* mapping record it wrote; the source project's content is read from db   *)
(* with the definitions below, not with the cloner's own selections.       *)

Succeeded(c) == dpc[c] = "done"
Failed(c) == dpc[c] = "failed"

ProjectIdOf(uuid) == (CHOOSE p \in db["projects"] : p.project_uuid = uuid).project_id
SpacesOf(pid) == { r \in db["spaces"] : r.project_id = pid }
SpaceIdsOf(pid) == { r.space_id : r \in SpacesOf(pid) }
ChartsOf(pid) == { r \in db["saved_queries"] : r.space_id \in SpaceIdsOf(pid) }
DashboardsOf(pid) == { r \in db["dashboards"] : r.space_id \in SpaceIdsOf(pid) }
ChartVersionsOf(q) == { v \in db["saved_queries_versions"] : v.saved_query_id = q }
DashboardVersionsOf(d) == { v \in db["dashboard_versions"] : v.dashboard_id = d }
LatestChartVersion(q) ==
    CHOOSE v \in ChartVersionsOf(q) :
        \A w \in ChartVersionsOf(q) : w.saved_queries_version_id <= v.saved_queries_version_id
LatestDashboardVersion(d) ==
    CHOOSE v \in DashboardVersionsOf(d) :
        \A w \in DashboardVersionsOf(d) : w.dashboard_version_id <= v.dashboard_version_id
VersionedCharts(pid) == { r.saved_query_id : r \in { q \in ChartsOf(pid) : ChartVersionsOf(q.saved_query_id) # {} } }
VersionedDashboards(pid) ==
    { r.dashboard_id : r \in { d \in DashboardsOf(pid) : DashboardVersionsOf(d.dashboard_id) # {} } }
LatestChartVersionIds(pid) == { LatestChartVersion(q).saved_queries_version_id : q \in VersionedCharts(pid) }
LatestDashboardVersionIds(pid) == { LatestDashboardVersion(d).dashboard_version_id : d \in VersionedDashboards(pid) }

(* The mapping record a call wrote *)
Record(c) == (CHOOSE m \in wrote[c]["preview_content"] : TRUE).content_mapping
Ids(mapping) == { mapping[i].id : i \in DOMAIN mapping }
NewIds(mapping) == { mapping[i].newId : i \in DOMAIN mapping }
Column(rows, column) == { r[column] : r \in rows }

(* C2: duplicateContent is all-or-nothing.  After a call that failed, no   *)
(* row it wrote is in the committed tables; after a call that succeeded,   *)
(* every row it wrote is, together with exactly one mapping record.        *)
C2_AllOrNothing ==
    \A c \in DupCalls :
        /\ Failed(c) => \A t \in TableNames : db[t] \cap wrote[c][t] = {}
        /\ Succeeded(c) =>
              /\ \A t \in TableNames : wrote[c][t] \subseteq db[t]
              /\ Cardinality(wrote[c]["preview_content"]) = 1

C2_Witness ==
    \E c1, c2 \in DupCalls :
        /\ Failed(c1) /\ wrote[c1]["spaces"] # {} /\ wrote[c1]["preview_content"] # {}
        /\ Succeeded(c2) /\ wrote[c2]["dashboard_tiles"] # {}

(* C3: a successful call of a source with N spaces, M charts and K         *)
(* dashboards inserts exactly N spaces, M charts and K dashboards, and the *)
(* spaces, charts and dashboards arrays of its mapping record have N, M    *)
(* and K entries, with pairwise distinct newId and exactly the source ids. *)
PairsExactly(mapping, sourceIds) ==
    /\ Len(mapping) = Cardinality(sourceIds)
    /\ Ids(mapping) = sourceIds
    /\ Cardinality(NewIds(mapping)) = Len(mapping)

C3_Counts ==
    \A c \in DupCalls :
        Succeeded(c) =>
            LET pid == ProjectIdOf(dargs[c].projectUuid) IN
            /\ Cardinality(wrote[c]["spaces"]) = Cardinality(SpacesOf(pid))
            /\ Cardinality(wrote[c]["saved_queries"]) = Cardinality(ChartsOf(pid))
            /\ Cardinality(wrote[c]["dashboards"]) = Cardinality(DashboardsOf(pid))
            /\ PairsExactly(Record(c).spaces, SpaceIdsOf(pid))
            /\ PairsExactly(Record(c).charts, Column(ChartsOf(pid), "saved_query_id"))
            /\ PairsExactly(Record(c).dashboards, Column(DashboardsOf(pid), "dashboard_id"))

C3_Witness ==
    \E c \in DupCalls :
        /\ Succeeded(c)
        /\ Len(Record(c).spaces) = 2 /\ Len(Record(c).charts) = 2 /\ Len(Record(c).dashboards) = 1

(* C4: referential closure.  After a successful call every foreign key of  *)
(* a row it inserted is a newId of the mapping the same call built for the *)
(* referenced table, and that newId is the key of a row the call inserted; *)
(* a chart tile may hold no chart (NULL), which references nothing.        *)
Closed(rows, column, mapping, targets, key) ==
    /\ Column(rows, column) \subseteq NewIds(mapping)
    /\ NewIds(mapping) = Column(targets, key)

C4_ReferentialClosure ==
    \A c \in DupCalls :
        Succeeded(c) =>
            LET w == wrote[c]
                m == Record(c)
                tileContent == w["dashboard_tile_charts"] \cup w["dashboard_tile_looms"]
                                  \cup w["dashboard_tile_markdowns"]
            IN
            /\ Closed(w["saved_queries"] \cup w["dashboards"] \cup w["space_share"], "space_id",
                      m.spaces, w["spaces"], "space_id")
            /\ Column(w["spaces"], "project_id")
                  \subseteq { p.project_id : p \in { q \in db["projects"] :
                                                       q.project_uuid = dargs[c].previewProjectUuid } }
            /\ Closed(w["saved_queries_versions"], "saved_query_id", m.charts,
                      w["saved_queries"], "saved_query_id")
            /\ Closed(w["dashboard_versions"], "dashboard_id", m.dashboards,
                      w["dashboards"], "dashboard_id")
            /\ Closed(w["dashboard_tiles"] \cup tileContent, "dashboard_version_id", m.dashboardVersions,
                      w["dashboard_versions"], "dashboard_version_id")
            /\ Column(w["dashboard_tile_charts"], "saved_chart_id") \subseteq NewIds(m.charts) \cup {Null}

C4_Witness ==
    \E c \in DupCalls :
        /\ Succeeded(c)
        /\ \E r \in wrote[c]["dashboard_tile_charts"] : r.saved_chart_id # Null
        /\ wrote[c]["saved_queries_versions"] # {}
        /\ wrote[c]["space_share"] # {}

(* C5: only the latest chart version is cloned.  For every source chart    *)
(* with a version, a successful call inserts exactly one version for its   *)
(* copy, a copy of the source version with the greatest                    *)
(* saved_queries_version_id of that chart, and chartVersions has exactly   *)
(* one entry per such chart.                                               *)
C5_LatestChartVersion ==
    \A c \in DupCalls :
        Succeeded(c) =>
            LET pid == ProjectIdOf(dargs[c].projectUuid)
                m == Record(c)
            IN
            /\ Len(m.chartVersions) = Cardinality(VersionedCharts(pid))
            /\ Cardinality(wrote[c]["saved_queries_versions"]) = Cardinality(VersionedCharts(pid))
            /\ \A i \in DOMAIN m.charts :
                  m.charts[i].id \in VersionedCharts(pid) =>
                     LET latest == LatestChartVersion(m.charts[i].id)
                         copies == { v \in wrote[c]["saved_queries_versions"] :
                                        v.saved_query_id = m.charts[i].newId }
                     IN /\ Cardinality(copies) = 1
                        /\ \A v \in copies :
                              /\ v.created_at = latest.created_at
                              /\ \E k \in DOMAIN m.chartVersions :
                                    m.chartVersions[k] = [id |-> latest.saved_queries_version_id,
                                                          newId |-> v.saved_queries_version_id]

C5_Witness ==
    \E c \in DupCalls :
        /\ Succeeded(c)
        /\ Len(Record(c).charts) = 2 /\ Len(Record(c).chartVersions) = 1
        /\ \E v \in db["saved_queries_versions"] :
              /\ v.saved_query_id \in Ids(Record(c).charts)
              /\ v.saved_queries_version_id \notin Ids(Record(c).chartVersions)

(* C6: only the latest dashboard version is cloned.  For every source      *)
(* dashboard with a version, a successful call inserts exactly one version *)
(* for its copy, copied from the source version with the greatest          *)
(* dashboard_version_id and attached to the dashboard the dashboards       *)
(* mapping pairs with the source dashboard.                                *)
C6_LatestDashboardVersion ==
    \A c \in DupCalls :
        Succeeded(c) =>
            LET pid == ProjectIdOf(dargs[c].projectUuid)
                m == Record(c)
            IN
            /\ Cardinality(wrote[c]["dashboard_versions"]) = Cardinality(VersionedDashboards(pid))
            /\ \A i \in DOMAIN m.dashboards :
                  m.dashboards[i].id \in VersionedDashboards(pid) =>
                     LET latest == LatestDashboardVersion(m.dashboards[i].id)
                         copies == { v \in wrote[c]["dashboard_versions"] :
                                        v.dashboard_id = m.dashboards[i].newId }
                     IN /\ Cardinality(copies) = 1
                        /\ \A v \in copies :
                              /\ v.created_at = latest.created_at
                              /\ \E k \in DOMAIN m.dashboardVersions :
                                    m.dashboardVersions[k] = [id |-> latest.dashboard_version_id,
                                                              newId |-> v.dashboard_version_id]

C6_Witness ==
    \E c \in DupCalls :
        /\ Succeeded(c)
        /\ Len(Record(c).dashboardVersions) = 1
        /\ \E v \in db["dashboard_versions"] :
              /\ v.dashboard_id \in Ids(Record(c).dashboards)
              /\ v.dashboard_version_id \notin Ids(Record(c).dashboardVersions)

(* C7: for every row of the four chart-version content tables that belongs *)
(* to the latest version of a cloned chart, a successful call inserts one  *)
(* copy whose saved_queries_version_id is the newId chartVersions records  *)
(* for the source version, and that new version belongs to a chart that is *)
(* a newId of charts; rows of the other versions are not copied.           *)
C7_ChartVersionContent ==
    \A c \in DupCalls :
        Succeeded(c) =>
            LET pid == ProjectIdOf(dargs[c].projectUuid)
                m == Record(c)
            IN \A x \in DOMAIN ChartVersionContentTables :
                  LET t == ChartVersionContentTables[x]
                      sourceRows == { r \in db[t] : r.saved_queries_version_id \in LatestChartVersionIds(pid) }
                  IN /\ Cardinality(wrote[c][t]) = Cardinality(sourceRows)
                     /\ \A r \in sourceRows :
                           Cardinality({ n \in wrote[c][t] :
                               /\ n.name = r.name
                               /\ \E k \in DOMAIN m.chartVersions :
                                     m.chartVersions[k] = [id |-> r.saved_queries_version_id,
                                                           newId |-> n.saved_queries_version_id] }) = 1
                     /\ \A n \in wrote[c][t] :
                           \E v \in wrote[c]["saved_queries_versions"] :
                               /\ v.saved_queries_version_id = n.saved_queries_version_id
                               /\ v.saved_query_id \in NewIds(m.charts)

C7_Witness ==
    \E c \in DupCalls :
        /\ Succeeded(c)
        /\ wrote[c]["saved_queries_version_table_calculations"] # {}
        /\ wrote[c]["saved_queries_version_additional_metrics"] # {}
        /\ \E r \in db["saved_queries_version_sorts"] :
              /\ r.saved_queries_version_id \notin LatestChartVersionIds(ProjectIdOf(dargs[c].projectUuid))
              /\ \E v \in db["saved_queries_versions"] :
                    /\ v.saved_queries_version_id = r.saved_queries_version_id
                    /\ v.saved_query_id \in Ids(Record(c).charts)

(* C8: tile identity is preserved.  After a successful call the tile uuids *)
(* of the tiles it inserted are exactly the tile uuids of the source tiles *)
(* of the cloned (latest) dashboard versions, and every copied tile is     *)
(* attached to the new version dashboardVersions pairs with the version of *)
(* its source tile.                                                        *)
C8_TileIdentity ==
    \A c \in DupCalls :
        Succeeded(c) =>
            LET pid == ProjectIdOf(dargs[c].projectUuid)
                m == Record(c)
                sourceTiles == { r \in db["dashboard_tiles"] :
                                    r.dashboard_version_id \in LatestDashboardVersionIds(pid) }
            IN /\ Column(wrote[c]["dashboard_tiles"], "dashboard_tile_uuid")
                     = Column(sourceTiles, "dashboard_tile_uuid")
               /\ Cardinality(wrote[c]["dashboard_tiles"]) = Cardinality(sourceTiles)
               /\ \A n \in wrote[c]["dashboard_tiles"] :
                     \E r \in sourceTiles :
                         /\ r.dashboard_tile_uuid = n.dashboard_tile_uuid
                         /\ r.type = n.type
                         /\ \E k \in DOMAIN m.dashboardVersions :
                               m.dashboardVersions[k] = [id |-> r.dashboard_version_id,
                                                         newId |-> n.dashboard_version_id]

C8_Witness ==
    \E c \in DupCalls :
        /\ Succeeded(c)
        /\ Cardinality(wrote[c]["dashboard_tiles"]) = 3
        /\ Cardinality(DashboardVersionsOf(1)) = 2

(* C9: an unresolved old-to-new lookup makes the call fail.  A call that   *)
(* copies a chart tile whose saved_chart_id is not an id of its charts     *)
(* mapping does not succeed, and no chart tile is inserted without the     *)
(* chart its source tile shows.                                            *)
C9_UnresolvedLookupFails ==
    \A c \in DupCalls :
        LET copied == { r \in db["dashboard_tile_charts"] :
                           /\ dpc[c] \notin {"idle", "resolve", "failed"}
                           /\ r.dashboard_version_id \in
                                 LatestDashboardVersionIds(ProjectIdOf(dargs[c].projectUuid)) }
        IN /\ Succeeded(c) =>
                 \A r \in copied : r.saved_chart_id # Null => r.saved_chart_id \in Ids(Record(c).charts)
           /\ \A n \in wrote[c]["dashboard_tile_charts"] :
                 n.saved_chart_id = Null =>
                    \A r \in copied :
                        r.dashboard_tile_uuid = n.dashboard_tile_uuid => r.saved_chart_id = Null

(* C10: isolation of the clone.  In every state, what a session outside    *)
(* the call's transaction can read (the committed tables) holds either     *)
(* none of the rows the call has inserted or all of them, the mapping      *)
(* record included.                                                        *)
C10_Isolation ==
    \A c \in DupCalls :
        \/ \A t \in TableNames : db[t] \cap wrote[c][t] = {}
        \/ /\ \A t \in TableNames : wrote[c][t] \subseteq db[t]
           /\ wrote[c]["preview_content"] # {}
           /\ ~InTransaction(c)

C10_Witness ==
    \E c1, c2 \in DupCalls :
        /\ Succeeded(c1) /\ wrote[c1]["dashboard_tiles"] # {}
        /\ dpc[c2] = "dashboard_tiles"
        /\ wrote[c2]["spaces"] # {} /\ wrote[c2]["saved_queries"] # {}

(* C11: duplicateContent is not idempotent, and calling it again is safe.  *)
(* When a call succeeded and a later call is made with the same (source,   *)
(* preview) pair, the later call does not throw an error of its own, the   *)
(* rows and the mapping record of the first call stay committed as they    *)
(* were written, and the later call inserts as many rows again, none of    *)
(* them a row of the first call, with keys no other row has and with a     *)
(* mapping record of its own.                                              *)
Again(c1, c2) == c1 < c2 /\ Succeeded(c1) /\ dpc[c2] # "idle" /\ dargs[c2] = dargs[c1]

KeyedTables == { t \in TableNames : IdColumn(t) # "" }

C11_NotIdempotentButSafe ==
    \A c1, c2 \in DupCalls :
        Again(c1, c2) =>
            /\ derr[c2] # "TypeError"
            /\ \A t \in TableNames :
                  /\ wrote[c1][t] \subseteq db[t]
                  /\ wrote[c1][t] \cap wrote[c2][t] = {}
            /\ \A t \in KeyedTables :
                  Column(wrote[c2][t], IdColumn(t)) \cap Column(db[t] \ wrote[c2][t], IdColumn(t)) = {}
            /\ Succeeded(c2) =>
                  /\ \A t \in TableNames : Cardinality(wrote[c2][t]) = Cardinality(wrote[c1][t])
                  /\ Cardinality({ m \in db["preview_content"] :
                                     /\ m.project_uuid = dargs[c1].projectUuid
                                     /\ m.preview_project_uuid = dargs[c1].previewProjectUuid }) = 2
                  /\ Ids(Record(c2).charts) = Ids(Record(c1).charts)
                  /\ NewIds(Record(c2).spaces) \cap NewIds(Record(c1).spaces) = {}
                  /\ NewIds(Record(c2).charts) \cap NewIds(Record(c1).charts) = {}
                  /\ NewIds(Record(c2).dashboards) \cap NewIds(Record(c1).dashboards) = {}

C11_Witness ==
    \E c1, c2 \in DupCalls :
        /\ Again(c1, c2) /\ Succeeded(c2)
        /\ wrote[c2]["dashboard_tiles"] # {} /\ wrote[c2]["saved_queries_versions"] # {}
        /\ Record(c2) # Record(c1)

(* C12: the mapping record is write-once.  The preview_content table holds *)
(* exactly one row per call that succeeded and none of a call that did     *)
(* not; the row of a call is keyed by the source and preview project uuids *)
(* the call was given, holds the charts, chartVersions, spaces, dashboards *)
(* and dashboardVersions mappings (and no other), each pairing source keys *)
(* with the keys of the rows that call inserted, and stays in the table as *)
(* it was written whatever is called afterwards.                           *)
MappingNames == {"charts", "chartVersions", "spaces", "dashboards", "dashboardVersions"}

RecordsOf(c) == { m \in db["preview_content"] : m \in wrote[c]["preview_content"] }

C12_WriteOnce ==
    /\ Cardinality(db["preview_content"]) = Cardinality({ c \in DupCalls : Succeeded(c) })
    /\ \A c \in DupCalls :
          /\ ~Succeeded(c) => RecordsOf(c) = {}
          /\ Succeeded(c) =>
                /\ Cardinality(RecordsOf(c)) = 1
                /\ \A m \in RecordsOf(c) :
                      /\ m.project_uuid = dargs[c].projectUuid
                      /\ m.preview_project_uuid = dargs[c].previewProjectUuid
                      /\ DOMAIN m.content_mapping = MappingNames
                      /\ NewIds(m.content_mapping.spaces) = Column(wrote[c]["spaces"], "space_id")
                      /\ NewIds(m.content_mapping.charts) = Column(wrote[c]["saved_queries"], "saved_query_id")
                      /\ NewIds(m.content_mapping.chartVersions)
                            = Column(wrote[c]["saved_queries_versions"], "saved_queries_version_id")
                      /\ NewIds(m.content_mapping.dashboards) = Column(wrote[c]["dashboards"], "dashboard_id")
                      /\ NewIds(m.content_mapping.dashboardVersions)
                            = Column(wrote[c]["dashboard_versions"], "dashboard_version_id")

C12_Witness ==
    \E c1, c2 \in DupCalls :
        /\ c1 < c2 /\ Succeeded(c1) /\ Succeeded(c2) /\ dargs[c1] = dargs[c2]
        /\ Cardinality(db["preview_content"]) = 2
        /\ \A m \in db["preview_content"] :
              m.content_mapping.dashboardVersions # <<>> /\ m.content_mapping.chartVersions # <<>>

----------------------------------------------------------------------------
(* More properties of the lock coordinator, stated for SpecLock *)

LocksHeldBy(c) == { k \in DOMAIN advisoryLocks : advisoryLocks[k] = c }

(* C13: tryAcquireProjectLock on a uuid that matches no project row is a   *)
(* silent no-op.  Once the try-lock statement of such a call has run, the  *)
(* call has started neither continuation (onLockFailed not even when it    *)
(* was supplied), holds no lock, and can only commit and return: it never  *)
(* rolls back and never throws.                                            *)
C13_MissingProjectNoOp ==
    \A c \in LockCalls :
        (largs[c].projectUuid = MissingUuid /\ lattempt[c] # "none") =>
            /\ lattempt[c] = "noproject"
            /\ lran[c] = {}
            /\ LocksHeldBy(c) = {}
            /\ lpc[c] \in {"commit", "idle"}
            /\ lout[c] # "threw"
            /\ lpc[c] = "idle" => lout[c] = "returned"

C13_Witness ==
    \E c \in LockCalls :
        /\ largs[c].projectUuid = MissingUuid /\ largs[c].onLockFailed
        /\ lattempt[c] = "noproject" /\ lpc[c] = "idle" /\ lout[c] = "returned"

(* C14: the lock lives exactly as long as the transaction that took it.    *)
(* A call that acquired the lock holds it until its transaction commits or *)
(* rolls back; a call that has returned or thrown holds no lock; and when  *)
(* the try-lock statement of a call on an existing project runs while no   *)
(* other call on that project is past its own try-lock statement and still *)
(* unfinished, the call acquires the lock and runs onLockAcquired.         *)
InLockTransaction(c) == lpc[c] \in {"onLockAcquired", "onLockFailed", "commit", "rollback"}

KeyOf(projectUuid) == LockKey(ProjectIdOf(projectUuid))

HeldWhileOpen ==
    \A c \in LockCalls :
        /\ lpc[c] = "idle" => LocksHeldBy(c) = {}
        /\ (InLockTransaction(c) /\ "onLockAcquired" \in lran[c]) =>
              LocksHeldBy(c) = {KeyOf(largs[c].projectUuid)}
        /\ (InLockTransaction(c) /\ "onLockAcquired" \notin lran[c]) => LocksHeldBy(c) = {}

AcquiresWhenHolderFinished ==
    \A c \in LockCalls :
        ( /\ lpc[c] = "tryLock" /\ lpc'[c] # "tryLock"
          /\ largs[c].projectUuid # MissingUuid
          /\ \A o \in LockCalls \ {c} :
                largs[o].projectUuid = largs[c].projectUuid => ~InLockTransaction(o) )
        => /\ lpc'[c] = "onLockAcquired"
           /\ lran'[c] = {"onLockAcquired"}
           /\ advisoryLocks'[KeyOf(largs[c].projectUuid)] = c

C14_ReleasedAtTransactionEnd == []HeldWhileOpen /\ [][AcquiresWhenHolderFinished]_vars

C14_Witness ==
    \E c1, c2 \in LockCalls :
        /\ c1 # c2
        /\ largs[c1].projectUuid = SourceUuid /\ largs[c2].projectUuid = SourceUuid
        /\ lpc[c1] = "idle" /\ lout[c1] = "threw" /\ "onLockAcquired" \in lran[c1]
        /\ lpc[c2] = "onLockAcquired" /\ advisoryLocks[KeyOf(SourceUuid)] = c2

(* C15: at most one continuation per call, inside the call's transaction.  *)
(* Once the try-lock statement of a call has run: onLockAcquired has been  *)
(* started if and only if the statement found the lock free (and took it), *)
(* onLockFailed if and only if it found the lock held by another           *)
(* transaction and onLockFailed was supplied, never both; before the       *)
(* statement neither has; and while a continuation runs the transaction of *)
(* the call has neither committed nor rolled back.                         *)
C15_OneContinuation ==
    \A c \in LockCalls :
        /\ Cardinality(lran[c]) <= 1
        /\ lattempt[c] = "none" => lran[c] = {}
        /\ lattempt[c] # "none" =>
              /\ "onLockAcquired" \in lran[c] <=> lattempt[c] = "free"
              /\ "onLockFailed" \in lran[c] <=> (lattempt[c] = "held" /\ largs[c].onLockFailed)
              /\ lattempt[c] \in {"free", "held"} <=> largs[c].projectUuid # MissingUuid
        /\ lpc[c] \in {"onLockAcquired", "onLockFailed"} =>
              /\ lran[c] = {lpc[c]}
              /\ lout[c] = "none"
              /\ lpc[c] = "onLockAcquired" <=> LocksHeldBy(c) # {}

C15_Witness ==
    \E c1, c2 \in LockCalls :
        /\ c1 # c2
        /\ lpc[c1] = "onLockAcquired" /\ lran[c1] = {"onLockAcquired"}
        /\ largs[c2].projectUuid = largs[c1].projectUuid
        /\ lattempt[c2] = "held" /\ ~largs[c2].onLockFailed
        /\ lran[c2] = {} /\ lpc[c2] = "idle" /\ lout[c2] = "returned"

(* C16 (stated for SpecLockLive): tryAcquireProjectLock never waits for    *)
(* the lock.  The try-lock statement of every call returns, and a call     *)
(* whose try-lock statement found the lock held by another transaction     *)
(* finishes (after onLockFailed, or at once when it was not supplied),     *)
(* whether or not the holder ever finishes: a call that is at its try-lock *)
(* statement, or past it with the lock found held and its transaction      *)
(* still open, leaves that condition, which it can only do by acquiring    *)
(* the lock at once or by finishing.                                       *)
Unsettled(c) == lpc[c] = "tryLock" \/ (lattempt[c] = "held" /\ InLockTransaction(c))

C16_NeverWaits == \A c \in LockCalls : Unsettled(c) ~> ~Unsettled(c)

C16_Witness ==
    \E c1, c2 \in LockCalls :
        /\ c1 # c2
        /\ lattempt[c2] = "held" /\ largs[c2].onLockFailed
        /\ lpc[c1] = "onLockAcquired" /\ LocksHeldBy(c1) = {KeyOf(largs[c2].projectUuid)}
        /\ lran[c2] = {"onLockFailed"} /\ lpc[c2] = "idle" /\ lout[c2] \in {"returned", "threw"}

(* C17: an error raised inside onLockAcquired or onLockFailed is not        *)
(* swallowed.  Once a continuation of a call has raised an error, the call *)
(* can only roll back and throw: it never commits nor returns, and when it *)
(* has thrown its transaction is over and it holds no lock, so that the    *)
(* lock of its project is free or held by a call that is still running.    *)
(* A call throws for no other reason than an error of its continuation.    *)
C17_ContinuationErrorPropagates ==
    \A c \in LockCalls :
        /\ lerr[c] # "none" =>
              /\ lran[c] # {}
              /\ lpc[c] \in {"rollback", "idle"}
              /\ lpc[c] = "rollback" => lout[c] = "none"
              /\ lpc[c] = "idle" =>
                    /\ lout[c] = "threw"
                    /\ LocksHeldBy(c) = {}
                    /\ advisoryLocks[KeyOf(largs[c].projectUuid)]
                          \in {0} \cup { o \in LockCalls : InLockTransaction(o) }
        /\ lout[c] = "threw" => lerr[c] # "none"
        /\ lpc[c] = "rollback" => lerr[c] # "none"

C17_Witness ==
    \E c1, c2 \in LockCalls :
        /\ c1 # c2
        /\ lran[c1] = {"onLockAcquired"} /\ lerr[c1] = "Error" /\ lout[c1] = "threw"
        /\ lran[c2] = {"onLockFailed"} /\ lerr[c2] = "Error" /\ lout[c2] = "threw"
        /\ \A k \in DOMAIN advisoryLocks : advisoryLocks[k] = 0

----------------------------------------------------------------------------
(* Properties of the cache, stated for SpecCache.  kret holds the last     *)
(* operation and what it returned; a get changes nothing else, so the      *)
(* saves a get came after are the saves of the state it leaves.            *)

RowsOf(t, u) == { r \in cached[t] : r.project_uuid = u }

LastSaved(t, u) == saves[t][u][Len(saves[t][u])]

(* C18: whatever saves were made, in whatever order their statements ran,  *)
(* cached_explores and cached_warehouse each hold at most one row per      *)
(* project uuid, and exactly one for a project that was saved to.          *)
C18_OneRowPerProject ==
    \A t \in CacheTables, u \in CacheInputs :
        /\ Cardinality(RowsOf(t, u)) <= 1
        /\ saves[t][u] # <<>> => Cardinality(RowsOf(t, u)) = 1

C18_Witness ==
    \E u \in CacheInputs :
        /\ Len(saves[CachedExploresTableName][u]) = 2
        /\ saves[CachedExploresTableName][u][1] # saves[CachedExploresTableName][u][2]
        /\ Len(saves[CachedWarehouseTableName][u]) = 1
        /\ Cardinality(cached[CachedExploresTableName]) = 1
        /\ Cardinality(cached[CachedWarehouseTableName]) = 1

(* The data a snapshot holds: its properties, those whose value is         *)
(* undefined left out.                                                     *)
Defined(o) == [k \in { j \in DOMAIN o : o[j] # Undefined } |-> o[k]]

Data(t, snapshot) ==
    IF t = CachedExploresTableName
    THEN [i \in DOMAIN snapshot |-> Defined(snapshot[i])]
    ELSE Defined(snapshot)

GotAfterSave == kret.op = "get" /\ saves[kret.table][kret.projectUuid] # <<>>

(* C19 as stated: a get of a project that was saved to returns exactly the *)
(* snapshot passed to the most recent save for that project, as the        *)
(* caller passed it.                                                       *)
C19_ExactSnapshot ==
    GotAfterSave =>
        /\ kret.kind = "value"
        /\ kret.value = LastSaved(kret.table, kret.projectUuid)

(* C19, amended: cache writes are last-writer-wins with full replacement,  *)
(* up to JSON.  The row of a project that was saved to holds the JSON text *)
(* of the snapshot of the most recent save and nothing else; a get returns *)
(* the data of that snapshot (the snapshot without the properties whose    *)
(* value is undefined, which JSON.stringify leaves out; the snapshot       *)
(* itself when it has none), nothing of an earlier snapshot; and a save    *)
(* returns the row it stored, holding the data of its own snapshot.        *)
C19_LastWriterWins ==
    /\ \A t \in CacheTables, u \in CacheInputs :
          saves[t][u] # <<>> =>
              /\ RowsOf(t, u) = { CacheRow(t, u, JSONStringify(t, LastSaved(t, u))) }
              /\ \A r \in RowsOf(t, u) : JSONParse(t, r[CacheColumn(t)]) = Data(t, LastSaved(t, u))
    /\ GotAfterSave =>
          /\ kret.kind = "value"
          /\ kret.value = Data(kret.table, LastSaved(kret.table, kret.projectUuid))
    /\ kret.op = "save" =>
          /\ kret.kind = "row"
          /\ kret.value = CacheRow(kret.table, kret.projectUuid,
                                   Data(kret.table, LastSaved(kret.table, kret.projectUuid)))
          /\ \E r \in RowsOf(kret.table, kret.projectUuid) : ParseRow(kret.table, r) = kret.value

C19_Witness ==
    \E u \in CacheInputs :
        /\ saves[CachedExploresTableName][u] = << <<ExploreA, ExploreB>>, <<ExploreA>> >>
        /\ kret.op = "get" /\ kret.table = CachedExploresTableName /\ kret.projectUuid = u
        /\ kret.kind = "value"
        /\ kret.value = <<ExploreA>>

(* C20: a get of a project for which nothing was ever saved returns        *)
(* undefined and raises no error, for the explores and for the warehouse   *)
(* alike.                                                                  *)
C20_AbsentIsUndefined ==
    (kret.op = "get" /\ saves[kret.table][kret.projectUuid] = <<>>) =>
        /\ kret.kind = "undefined"
        /\ kret.value = Undefined

C20_Witness ==
    /\ kret.op = "get" /\ kret.kind = "undefined"
    /\ kret.table = CachedWarehouseTableName /\ kret.projectUuid = SourceUuid
    /\ saves[CachedWarehouseTableName][PreviewUuid] # <<>>
    /\ saves[CachedExploresTableName][SourceUuid] # <<>>

----------------------------------------------------------------------------
(* Properties of the secret merge, stated for SpecMerge *)

Merged == mret.fn # "none"

TypesMatch == mret.incompleteConfig["type"] = mret.completeConfig["type"]

SecretKeys == { mret.names[i] : i \in DOMAIN mret.names }

NonEmpty(o, k) == k \in DOMAIN o /\ o[k] # ""

MissingOrEmpty(o, k) == k \notin DOMAIN o \/ o[k] = ""

(* The property k of o and p: both lack it, or both have it with one value *)
SameProperty(o, p, k) ==
    /\ (k \in DOMAIN o) = (k \in DOMAIN p)
    /\ k \in DOMAIN o => o[k] = p[k]

(* C21: when the two configurations have different connection types, both  *)
(* merges return the incomplete configuration exactly as given, whatever   *)
(* secrets the complete configuration holds.                               *)
C21_TypeMismatchReturnsIncomplete ==
    (Merged /\ ~TypesMatch) => mret.result = mret.incompleteConfig

C21_Witness ==
    /\ mret.fn = "mergeMissingWarehouseSecrets"
    /\ ~TypesMatch
    /\ \E k \in SecretKeys :
          /\ k \notin DOMAIN mret.incompleteConfig
          /\ NonEmpty(mret.completeConfig, k)
    /\ mret.result = mret.incompleteConfig

(* C22: when the types match, every secret field of the merged             *)
(* configuration holds the complete configuration's value if the field is  *)
(* missing or empty in the incomplete configuration and non-empty in the   *)
(* complete one, and the incomplete configuration's value (or absence)     *)
(* otherwise.                                                              *)
C22_FillsMissingSecrets ==
    (Merged /\ TypesMatch) =>
        \A k \in SecretKeys :
            IF MissingOrEmpty(mret.incompleteConfig, k) /\ NonEmpty(mret.completeConfig, k)
            THEN SameProperty(mret.result, mret.completeConfig, k)
            ELSE SameProperty(mret.result, mret.incompleteConfig, k)

C22_Witness ==
    /\ mret.fn = "mergeMissingDbtConfigSecrets"
    /\ TypesMatch
    /\ SecretKeys = ConfigKeys
    /\ \E k, j \in SecretKeys :
          /\ k \notin DOMAIN mret.incompleteConfig
          /\ NonEmpty(mret.completeConfig, k)
          /\ mret.result[k] = mret.completeConfig[k]
          /\ NonEmpty(mret.incompleteConfig, j)
          /\ NonEmpty(mret.completeConfig, j)
          /\ mret.completeConfig[j] # mret.incompleteConfig[j]
          /\ mret.result[j] = mret.incompleteConfig[j]

(* C23 as stated: a secret field the incomplete configuration supplies     *)
(* as an empty value keeps the empty value in the merged configuration,    *)
(* even when the complete configuration of the same type holds a non-empty *)
(* value for it.                                                           *)
C23_EmptyNeverOverwritten ==
    (Merged /\ TypesMatch) =>
        \A k \in SecretKeys :
            (k \in DOMAIN mret.incompleteConfig /\ mret.incompleteConfig[k] = "") =>
                (k \in DOMAIN mret.result /\ mret.result[k] = "")

(* C23, amended: a secret field the incomplete configuration supplies as   *)
(* an empty value counts as missing.  The merged configuration holds the   *)
(* complete configuration's value for it when the types match and that     *)
(* value is non-empty, and keeps the empty value in every other case.      *)
C23_EmptyCountsAsMissing ==
    Merged =>
        \A k \in SecretKeys :
            (k \in DOMAIN mret.incompleteConfig /\ mret.incompleteConfig[k] = "") =>
                /\ k \in DOMAIN mret.result
                /\ mret.result[k] = IF TypesMatch /\ NonEmpty(mret.completeConfig, k)
                                    THEN mret.completeConfig[k]
                                    ELSE ""

C23_Witness ==
    /\ Merged /\ TypesMatch
    /\ \E k, j \in SecretKeys :
          /\ k \in DOMAIN mret.incompleteConfig /\ mret.incompleteConfig[k] = ""
          /\ NonEmpty(mret.completeConfig, k)
          /\ mret.result[k] = mret.completeConfig[k]
          /\ j \in DOMAIN mret.incompleteConfig /\ mret.incompleteConfig[j] = ""
          /\ ~NonEmpty(mret.completeConfig, j)
          /\ mret.result[j] = ""

(* C24: the merge changes nothing but missing secrets.  Every field that   *)
(* is not a secret field is in the merged configuration exactly as it is   *)
(* in the incomplete one (none is taken from the complete configuration),  *)
(* and every secret field the incomplete configuration supplies non-empty  *)
(* is kept.                                                                *)
C24_OnlyMissingSecretsChange ==
    Merged =>
        /\ \A k \in ({"type"} \cup ConfigKeys) \ SecretKeys :
              SameProperty(mret.result, mret.incompleteConfig, k)
        /\ \A k \in SecretKeys :
              NonEmpty(mret.incompleteConfig, k) => SameProperty(mret.result, mret.incompleteConfig, k)

C24_Witness ==
    /\ mret.fn = "mergeMissingDbtConfigSecrets"
    /\ TypesMatch
    /\ \E k \in ConfigKeys \ SecretKeys, j \in SecretKeys :
          /\ k \notin DOMAIN mret.incompleteConfig
          /\ NonEmpty(mret.completeConfig, k)
          /\ k \notin DOMAIN mret.result
          /\ NonEmpty(mret.incompleteConfig, j)
          /\ NonEmpty(mret.completeConfig, j)
          /\ mret.completeConfig[j] # mret.incompleteConfig[j]
          /\ mret.result[j] = mret.incompleteConfig[j]

----------------------------------------------------------------------------
(* Properties of createProjectAccess, stated for SpecAccess *)

AccessFinished(c) == apc[c] \in {"done", "failed"}

(* The membership rows of the project and user a call has resolved *)
PairRows(c) ==
    { r \in memberships :
        /\ \E p \in aloc[c].project : r.project_id = p.project_id
        /\ \E u \in aloc[c].user : r.user_id = u.user_id }

(* C25: createProjectAccess for a (project, user) pair that already has a  *)
(* membership row raises AlreadyExistsError, inserts no second row and     *)
(* leaves the existing row, its role included, as it is.                   *)
C25_DuplicateMemberRejected ==
    [][\A c \in AccessCalls :
          (apc[c] = "insert" /\ apc'[c] # "insert" /\ PairRows(c) # {}) =>
              /\ apc'[c] = "failed"
              /\ aout'[c] = "AlreadyExistsError"
              /\ memberships' = memberships
              /\ ainserted'[c] = ainserted[c]]_vars

C25_Witness ==
    \E c, o \in AccessCalls :
        /\ c # o
        /\ aout[c] = "AlreadyExistsError"
        /\ aout[o] = "ok"
        /\ \E r \in PairRows(c) : r \in ainserted[o] /\ r.role # aargs[c].role
        /\ Cardinality(PairRows(c)) = 1

(* C26: createProjectAccess with an email that belongs to no user raises   *)
(* NotExistsError and inserts no membership row.                           *)
C26_UnknownEmailNotFound ==
    \A c \in AccessCalls :
        (AccessFinished(c) /\ aargs[c].email \notin { e.email : e \in Emails }) =>
            /\ aout[c] = "NotExistsError"
            /\ ainserted[c] = {}

C26_Witness ==
    \E c \in AccessCalls :
        /\ AccessFinished(c)
        /\ aargs[c].email = UnknownEmail /\ aargs[c].projectUuid = SourceUuid
        /\ aout[c] = "NotExistsError"
        /\ memberships = {}

(* The rows the table had before the calls *)
MembershipsBefore == memberships \ UNION { ainserted[c] : c \in AccessCalls }

SamePair(r, q) == r.project_id = q.project_id /\ r.user_id = q.user_id

(* The finished calls that resolved the project and user of row r *)
FinishedFor(r) ==
    { c \in AccessCalls :
        /\ AccessFinished(c)
        /\ \E p \in aloc[c].project : p.project_id = r.project_id
        /\ \E u \in aloc[c].user : u.user_id = r.user_id }

(* C27: at most one membership row exists per (project, user) pair in      *)
(* every reachable state, however the calls interleave.  Of the calls made *)
(* for one project and user that had no row, exactly one inserts the row   *)
(* and every other one raises AlreadyExistsError.                          *)
C27_OneRowPerPair ==
    /\ \A r, q \in memberships : SamePair(r, q) => r = q
    /\ \A r \in memberships :
          LET calls == FinishedFor(r)
              inserters == { c \in calls : aout[c] = "ok" }
          IN /\ \A c \in calls : aout[c] \in {"ok", "AlreadyExistsError"}
             /\ \A c \in inserters : \E q \in ainserted[c] : SamePair(q, r)
             /\ \A c \in calls \ inserters : ainserted[c] = {}
             /\ (calls # {} /\ ~\E q \in MembershipsBefore : SamePair(q, r)) =>
                   Cardinality(inserters) = 1

C27_Witness ==
    \E c, o \in AccessCalls :
        /\ c # o
        /\ AccessFinished(c) /\ AccessFinished(o)
        /\ aargs[c].projectUuid = aargs[o].projectUuid /\ aargs[c].email = aargs[o].email
        /\ aargs[c].role # aargs[o].role
        /\ c \in aloc[o].during
        /\ aout[c] = "AlreadyExistsError" /\ aout[o] = "ok"
        /\ Cardinality(memberships) = 1
        /\ MembershipsBefore = {}

(* The users who are members of the organization that owns project p *)
UsersOfOrganizationOf(p) ==
    { m.user_id : m \in { n \in OrganizationMemberships :
                            \E o \in ProjectOrganizations :
                                /\ o.project_id = p.project_id
                                /\ o.organization_id = n.organization_id } }

(* C28: createProjectAccess fails with NotExistsError, and inserts no row, *)
(* when the email belongs to a user who is not in the organization that    *)
(* owns the project.                                                       *)
C28_OutsiderNotFound ==
    \A c \in AccessCalls :
        (/\ AccessFinished(c)
         /\ aloc[c].project # {}
         /\ aloc[c].user # {}
         /\ \A p \in aloc[c].project, u \in aloc[c].user : u.user_id \notin UsersOfOrganizationOf(p)) =>
            /\ aout[c] = "NotExistsError"
            /\ ainserted[c] = {}

(* C29: an operation that references a project or organization that does   *)
(* not exist raises NotExistsError before any mutation.  createProjectAccess *)
(* with an unknown project uuid and the email of an existing user raises   *)
(* NotExistsError and inserts nothing; create with an unknown organization *)
(* uuid raises NotExistsError and inserts nothing.                         *)
C29_MissingReferenceNotFound ==
    /\ \A c \in AccessCalls :
          (/\ AccessFinished(c)
           /\ aargs[c].projectUuid \notin { p.project_uuid : p \in Projects }
           /\ aargs[c].email \in { e.email : e \in Emails }) =>
              /\ aout[c] = "NotExistsError"
              /\ ainserted[c] = {}
    /\ \A c \in ProjectCalls :
          (/\ ppc[c] \in {"done", "failed"}
           /\ pargs[c].op = "create"
           /\ pargs[c].uuid \notin { o.organization_uuid : o \in ploc[c].before["organizations"] }) =>
              /\ pout[c].result = "NotExistsError"
              /\ ploc[c].after = ploc[c].before

----------------------------------------------------------------------------
(* Properties of create and update, stated for SpecProject *)

ProjectFinished(c) == ppc[c] \in {"done", "failed"}

(* C30: update on a project uuid that matches no project raises            *)
(* UnexpectedServerError and changes nothing: no project row is modified   *)
(* and no warehouse_credentials row is inserted or changed.                *)
C30_UpdateOfMissingProject ==
    \A c \in ProjectCalls :
        (/\ ProjectFinished(c)
         /\ pargs[c].op = "update"
         /\ ~\E p \in ploc[c].before["projects"] : p.project_uuid = pargs[c].uuid) =>
            /\ pout[c].result = "UnexpectedServerError"
            /\ ploc[c].after = ploc[c].before

C30_Witness ==
    \E c, o \in ProjectCalls :
        /\ o < c
        /\ pargs[o].op = "create" /\ pout[o].result = "ok"
        /\ ProjectFinished(c)
        /\ pargs[c].op = "update" /\ pargs[c].uuid = MissingUuid
        /\ ploc[c].encryptedCredentials = Encrypt(pargs[c].data.dbtConnection)
        /\ pout[c].result = "UnexpectedServerError"
        /\ pdb = ploc[o].after
        /\ Cardinality(pdb["projects"]) = 2

----------------------------------------------------------------------------
(* More properties of the cloner, stated for SpecDup *)

RowWith(rows, column, id) == CHOOSE r \in rows : r[column] = id

(* The copy of a parent sits in the space the spaces mapping pairs with    *)
(* the space of the original.                                              *)
SameContainment(c, mapping, table, column) ==
    \A i \in DOMAIN mapping :
        LET original == RowWith(db[table], column, mapping[i].id)
            copy == RowWith(wrote[c][table], column, mapping[i].newId)
        IN \E k \in DOMAIN Record(c).spaces :
              /\ Record(c).spaces[k].id = original.space_id
              /\ Record(c).spaces[k].newId = copy.space_id

(* C33: cloning preserves the containment edges.  After a successful call, *)
(* the copy of every chart and dashboard belongs to the preview space the  *)
(* spaces mapping pairs with the original's space, every such preview      *)
(* space belongs to the preview project, and it has the name and the       *)
(* privacy flag of the source space it is paired with.                     *)
C33_ContainmentPreserved ==
    \A c \in DupCalls :
        Succeeded(c) =>
            LET m == Record(c) IN
            /\ SameContainment(c, m.charts, "saved_queries", "saved_query_id")
            /\ SameContainment(c, m.dashboards, "dashboards", "dashboard_id")
            /\ \A k \in DOMAIN m.spaces :
                  LET original == RowWith(db["spaces"], "space_id", m.spaces[k].id)
                      copy == RowWith(wrote[c]["spaces"], "space_id", m.spaces[k].newId)
                  IN /\ original.project_id = ProjectIdOf(dargs[c].projectUuid)
                     /\ copy.project_id = ProjectIdOf(dargs[c].previewProjectUuid)
                     /\ copy.name = original.name
                     /\ copy.is_private = original.is_private

C33_Witness ==
    \E c \in DupCalls :
        /\ Succeeded(c)
        /\ Len(Record(c).spaces) = 2 /\ Len(Record(c).charts) = 2 /\ Len(Record(c).dashboards) = 1
        /\ \E q, r \in wrote[c]["saved_queries"] : q.space_id # r.space_id
        /\ \E sp \in wrote[c]["spaces"] : sp.is_private

SharesOn(spaceId) == { r.user_id : r \in { x \in db["space_share"] : x.space_id = spaceId } }

(* C35: space sharing is cloned with the spaces.  After a successful call  *)
(* a user has a share on the preview space the spaces mapping pairs with a *)
(* source space exactly when the user has a share on that source space,    *)
(* and no step changes the share rows of the source spaces.                *)
C35_SharesCloned ==
    /\ [](\A c \in DupCalls :
             Succeeded(c) =>
                \A k \in DOMAIN Record(c).spaces :
                    SharesOn(Record(c).spaces[k].newId) = SharesOn(Record(c).spaces[k].id))
    /\ [][\A r \in db["space_share"] : r \in db'["space_share"]]_vars

C35_Witness ==
    \E c \in DupCalls :
        /\ Succeeded(c)
        /\ \E k, j \in DOMAIN Record(c).spaces :
              /\ SharesOn(Record(c).spaces[k].newId) # {}
              /\ SharesOn(Record(c).spaces[j].newId) = {}

SourceExists(c) == \E p \in db["projects"] : p.project_uuid = dargs[c].projectUuid

PreviewExists(c) == \E p \in db["projects"] : p.project_uuid = dargs[c].previewProjectUuid

(* C36: missing content is a no-op, not an error.  A call on an existing   *)
(* source and preview project raises no error of its own, whatever the     *)
(* source lacks (it fails only when the store fails a statement).  After a *)
(* successful call a chart or dashboard without versions has a copy, but   *)
(* no version of the copy and no entry in chartVersions or                 *)
(* dashboardVersions; the dependent tables get rows only for copied        *)
(* versions; and the mapping record is written, with empty arrays where    *)
(* the source has nothing.                                                 *)
C36_MissingContentIsNoOp ==
    \A c \in DupCalls :
        /\ (dpc[c] # "idle" /\ SourceExists(c) /\ PreviewExists(c)) => derr[c] \in {"none", "DatabaseError"}
        /\ Succeeded(c) =>
              LET pid == ProjectIdOf(dargs[c].projectUuid)
                  m == Record(c)
                  w == wrote[c]
              IN
              /\ Cardinality(w["preview_content"]) = 1
              /\ \A i \in DOMAIN m.charts :
                    ChartVersionsOf(m.charts[i].id) = {} =>
                       /\ \E q \in w["saved_queries"] : q.saved_query_id = m.charts[i].newId
                       /\ ~\E v \in w["saved_queries_versions"] : v.saved_query_id = m.charts[i].newId
              /\ \A i \in DOMAIN m.dashboards :
                    DashboardVersionsOf(m.dashboards[i].id) = {} =>
                       /\ \E d \in w["dashboards"] : d.dashboard_id = m.dashboards[i].newId
                       /\ ~\E v \in w["dashboard_versions"] : v.dashboard_id = m.dashboards[i].newId
              /\ Ids(m.chartVersions) \subseteq Column(db["saved_queries_versions"], "saved_queries_version_id")
              /\ Ids(m.dashboardVersions) \subseteq Column(db["dashboard_versions"], "dashboard_version_id")
              /\ \A i \in 1..4 :
                    Column(w[ChartVersionContentTables[i]], "saved_queries_version_id")
                       \subseteq NewIds(m.chartVersions)
              /\ Column(w["dashboard_tiles"], "dashboard_version_id") \subseteq NewIds(m.dashboardVersions)
              /\ \A i \in DOMAIN TileContentTables :
                    Column(w[TileContentTables[i]], "dashboard_version_id")
                       \subseteq NewIds(m.dashboardVersions)
              /\ SpacesOf(pid) \ w["spaces"] = {} => m.spaces = <<>>
              /\ ChartsOf(pid) \ w["saved_queries"] = {} => m.charts = <<>> /\ m.chartVersions = <<>>
              /\ DashboardsOf(pid) \ w["dashboards"] = {} =>
                    m.dashboards = <<>> /\ m.dashboardVersions = <<>>

C36_Witness ==
    \E c1, c2 \in DupCalls :
        /\ Succeeded(c1)
        /\ Record(c1).spaces = <<>> /\ Record(c1).charts = <<>> /\ Record(c1).dashboards = <<>>
        /\ Succeeded(c2) /\ c1 # c2
    \/ \E c \in DupCalls :
        /\ Succeeded(c)
        /\ \E i \in DOMAIN Record(c).charts : ChartVersionsOf(Record(c).charts[i].id) = {}
        /\ \E i \in DOMAIN Record(c).dashboards : DashboardVersionsOf(Record(c).dashboards[i].id) = {}
        /\ wrote[c]["saved_queries_version_additional_metrics"] = {}
        /\ wrote[c]["saved_queries_version_fields"] # {}

(* The rows of database d that belong to project pid, table by table *)
Owned(d, pid) ==
    LET spaces == { r \in d["spaces"] : r.project_id = pid }
        spaceIds == Column(spaces, "space_id")
        charts == { r \in d["saved_queries"] : r.space_id \in spaceIds }
        chartVersions == { r \in d["saved_queries_versions"] :
                             r.saved_query_id \in Column(charts, "saved_query_id") }
        chartVersionIds == Column(chartVersions, "saved_queries_version_id")
        dashboards == { r \in d["dashboards"] : r.space_id \in spaceIds }
        dashboardVersions == { r \in d["dashboard_versions"] :
                                 r.dashboard_id \in Column(dashboards, "dashboard_id") }
        dashboardVersionIds == Column(dashboardVersions, "dashboard_version_id")
    IN [t \in TableNames |->
          CASE t = "spaces" -> spaces
            [] t = "space_share" -> { r \in d[t] : r.space_id \in spaceIds }
            [] t = "saved_queries" -> charts
            [] t = "saved_queries_versions" -> chartVersions
            [] t \in Range(ChartVersionContentTables) ->
                  { r \in d[t] : r.saved_queries_version_id \in chartVersionIds }
            [] t = "dashboards" -> dashboards
            [] t = "dashboard_versions" -> dashboardVersions
            [] t \in Range(TileContentTables) \cup {"dashboard_tiles"} ->
                  { r \in d[t] : r.dashboard_version_id \in dashboardVersionIds }
            [] OTHER -> {}]

(* C37: duplicateContent never modifies or deletes a row of the source     *)
(* project.  No step of a call, the commit and the rollback included,      *)
(* changes the committed spaces, space shares, charts, chart versions and  *)
(* their content, dashboards, dashboard versions, tiles and tile contents  *)
(* of the source project.                                                  *)
C37_SourceUntouched ==
    [][Owned(db', ProjectIdOf(SourceUuid)) = Owned(db, ProjectIdOf(SourceUuid))]_vars

C37_Witness ==
    \E c1, c2 \in DupCalls :
        /\ Succeeded(c1) /\ dargs[c1].projectUuid = SourceUuid
        /\ wrote[c1]["dashboard_tile_charts"] # {} /\ wrote[c1]["saved_queries_version_fields"] # {}
        /\ Failed(c2) /\ dargs[c2].projectUuid = SourceUuid /\ wrote[c2]["spaces"] # {}
        /\ Owned(db, ProjectIdOf(SourceUuid))["space_share"] # {}

SameTile(a, b) ==
    /\ a.dashboard_tile_uuid = b.dashboard_tile_uuid
    /\ a.dashboard_version_id = b.dashboard_version_id

(* The key a copied row has: the new version id, the same tile uuid *)
CopiedKey(c, r) ==
    [dashboard_version_id |-> Find(Record(c).dashboardVersions, r.dashboard_version_id),
     dashboard_tile_uuid |-> r.dashboard_tile_uuid]

CopiedFrom(c, table) ==
    { r \in db[table] : r.dashboard_version_id \in Ids(Record(c).dashboardVersions) }

(* Every inserted content row identifies a tile the call inserted, and the *)
(* copy of a tile has as many content rows in each content table as the    *)
(* tile has.                                                               *)
TileContentOneToOne(c) ==
    /\ \A i \in DOMAIN TileContentTables :
          \A n \in wrote[c][TileContentTables[i]] :
              \E t \in wrote[c]["dashboard_tiles"] : SameTile(n, t)
    /\ \A t \in CopiedFrom(c, "dashboard_tiles") :
          /\ \E n \in wrote[c]["dashboard_tiles"] : SameTile(n, CopiedKey(c, t))
          /\ \A i \in DOMAIN TileContentTables :
                Cardinality({ n \in wrote[c][TileContentTables[i]] : SameTile(n, CopiedKey(c, t)) })
                   = Cardinality({ r \in db[TileContentTables[i]] : SameTile(r, t) })

TileChartsRemapped(c) ==
    \A r \in CopiedFrom(c, "dashboard_tile_charts") :
        \A n \in wrote[c]["dashboard_tile_charts"] :
            SameTile(n, CopiedKey(c, r)) =>
                IF r.saved_chart_id = Null
                THEN n.saved_chart_id = Null
                ELSE \E k \in DOMAIN Record(c).charts :
                        /\ Record(c).charts[k].id = r.saved_chart_id
                        /\ Record(c).charts[k].newId = n.saved_chart_id

TileContentCloned ==
    \A c \in DupCalls : Succeeded(c) => TileContentOneToOne(c)

(* C34: tile content is cloned one-to-one.  After a successful call every  *)
(* inserted tile content row identifies a tile inserted by the same call,  *)
(* the copy of a tile has the content rows of the tile, kind by kind, and  *)
(* the copy of a chart tile row with a chart id points at the chart the    *)
(* charts mapping pairs with that id, while one without a chart id stays   *)
(* without one.                                                            *)
C34_TileContentOneToOne ==
    \A c \in DupCalls : Succeeded(c) => TileContentOneToOne(c) /\ TileChartsRemapped(c)

----------------------------------------------------------------------------
(* The project lock is per project, stated for SpecLock *)

HoldsLockOf(o, projectUuid) ==
    /\ largs[o].projectUuid = projectUuid
    /\ lpc[o] # "idle"
    /\ ProjectLockRows(projectUuid) # {}
    /\ advisoryLocks[KeyOf(projectUuid)] = o

(* C38: the project lock is per project.  Whenever the lock statement of a *)
(* call on an existing project finds the lock held (the failed path),      *)
(* another call on the same project holds it at that moment: a lock held   *)
(* on a different project never does this.                                 *)
C38_LockIsPerProject ==
    [][\A c \in LockCalls :
          (lpc[c] = "tryLock" /\ (lattempt'[c] = "held" \/ "onLockFailed" \in lran'[c])) =>
             \E o \in LockCalls \ {c} : HoldsLockOf(o, largs[c].projectUuid)]_vars

(* Two calls on distinct projects are inside onLockAcquired together *)
C38_Witness ==
    \E c, o \in LockCalls :
        /\ lpc[c] = "onLockAcquired" /\ lpc[o] = "onLockAcquired"
        /\ largs[c].projectUuid = SourceUuid /\ largs[o].projectUuid = PreviewUuid
        /\ lattempt[c] = "free" /\ lattempt[o] = "free"

----------------------------------------------------------------------------
(* Properties of the operations that use the encryption service, stated    *)
(* for SpecProject                                                         *)

EncryptingOperations ==
    {"create", "update", "getWithSensitiveFields", "getWarehouseCredentialsForProject",
     "findDbtCloudIntegrationWithSecrets", "upsertDbtCloudIntegration"}

(* A finished call of one of the operations in which the encryption service    *)
(* failed threw UnexpectedServerError and left the store as it was.        *)
ServiceFailureSurfaced(operations) ==
    \A c \in ProjectCalls :
        (ProjectFinished(c) /\ pargs[c].op \in operations /\ ploc[c].serviceFailed) =>
            /\ pout[c].result = "UnexpectedServerError"
            /\ ploc[c].after = ploc[c].before
            /\ pdb = ploc[c].before \/ \E o \in ProjectCalls : o > c /\ ppc[o] # "idle"

ServiceFailureSurfacedWhereCaught ==
    ServiceFailureSurfaced(EncryptingOperations
                              \ {"findDbtCloudIntegrationWithSecrets", "upsertDbtCloudIntegration"})

(* C31: in create, update, getWithSensitiveFields,                         *)
(* getWarehouseCredentialsForProject, findDbtCloudIntegrationWithSecrets   *)
(* and upsertDbtCloudIntegration, a failure of the encryption service      *)
(* reaches the caller as UnexpectedServerError, never as the exception of  *)
(* the service, and the failed call has persisted nothing.                 *)
C31_ServiceFailureSurfaced == ServiceFailureSurfaced(EncryptingOperations)

(* The rows of the spaces table a project owns after the call c *)
SpacesAfter(c, projectUuid) ==
    { r \in ploc[c].after["spaces"] :
        \E p \in WhereProjectUuid(ploc[c].after["projects"], projectUuid) : p.project_id = r.project_id }

(* C32: a preview project is empty between its creation and the start of   *)
(* cloning.  Immediately after create returns, the project it has created  *)
(* owns no space (and so no chart and no dashboard, which live in spaces): *)
(* cloning a source of N spaces into it, which inserts N spaces, leaves it *)
(* with exactly N.                                                         *)
C32_CreatedProjectIsEmpty ==
    \A c \in ProjectCalls :
        (ppc[c] = "done" /\ pargs[c].op = "create") => SpacesAfter(c, pout[c].value) = {}

----------------------------------------------------------------------------
(* Properties of get and getWithSensitiveFields, stated for SpecGet *)

Returned(c, op) == ppc[c] = "done" /\ pargs[c].op = op

(* The project row and warehouse rows the call c has read *)
ProjectRowOf(c) == CHOOSE p \in ploc[c].before["projects"] : p.project_uuid = pargs[c].uuid

WarehouseRowsOf(c) ==
    { w \in ploc[c].before["warehouse_credentials"] : w.project_id = ProjectRowOf(c).project_id }

(* The stored configurations as members: the text that was encrypted *)
StoredConfigs(c) ==
    [dbt |-> { ProjectRowOf(c).dbt_connection[2] },
     warehouse |-> { w.encrypted_credentials[2] : w \in WarehouseRowsOf(c) }]

(* Two sets of stored configurations, each empty or of one member, differ  *)
(* only in the values of the fields named in names                         *)
DifferOnlyIn(stored1, stored2, names) ==
    /\ Cardinality(stored1) = Cardinality(stored2)
    /\ \A a \in stored1, b \in stored2 :
          /\ { m[1] : m \in a } = { m[1] : m \in b }
          /\ \A m \in a : m[1] \notin Range(names) => m \in b

ReturnedConfigs(value) ==
    <<value.dbtConnection, Member(value, "warehouseConnection")>>

(* C39: get does not reveal secrets.  The dbtConnection and the            *)
(* warehouseConnection that get returns have no field named in the lists   *)
(* of sensitive fields; two get calls on projects whose stored             *)
(* configurations differ only in the values of sensitive fields return the *)
(* same configurations; and getWithSensitiveFields returns the stored      *)
(* configurations in full.                                                 *)
C39_GetRevealsNoSecret ==
    /\ \A c \in ProjectCalls :
          Returned(c, "get") =>
             /\ DOMAIN pout[c].value.dbtConnection \cap Range(sensitiveDbtCredentialsFieldNames) = {}
             /\ WarehouseRowsOf(c) # {} =>
                   DOMAIN pout[c].value.warehouseConnection
                      \cap Range(sensitiveCredentialsFieldNames) = {}
    /\ \A c1, c2 \in ProjectCalls :
          (/\ Returned(c1, "get") /\ Returned(c2, "get")
           /\ DifferOnlyIn(StoredConfigs(c1).dbt, StoredConfigs(c2).dbt, sensitiveDbtCredentialsFieldNames)
           /\ DifferOnlyIn(StoredConfigs(c1).warehouse, StoredConfigs(c2).warehouse,
                           sensitiveCredentialsFieldNames)) =>
              ReturnedConfigs(pout[c1].value) = ReturnedConfigs(pout[c2].value)
    /\ \A c \in ProjectCalls :
          Returned(c, "getWithSensitiveFields") =>
             /\ StoredConfigs(c).dbt = { { <<k, pout[c].value.dbtConnection[k]>> :
                                              k \in DOMAIN pout[c].value.dbtConnection } }
             /\ StoredConfigs(c).warehouse =
                   IF "warehouseConnection" \in DOMAIN pout[c].value
                   THEN { { <<k, pout[c].value.warehouseConnection[k]>> :
                               k \in DOMAIN pout[c].value.warehouseConnection } }
                   ELSE {}

(* Two get calls on projects whose stored secrets differ *)
C39_Witness ==
    \E c1, c2 \in ProjectCalls :
        /\ Returned(c1, "get") /\ Returned(c2, "get")
        /\ pargs[c1].uuid = SourceUuid /\ pargs[c2].uuid = OtherUuid
        /\ StoredConfigs(c1) # StoredConfigs(c2)
        /\ DifferOnlyIn(StoredConfigs(c1).dbt, StoredConfigs(c2).dbt, sensitiveDbtCredentialsFieldNames)
        /\ DifferOnlyIn(StoredConfigs(c1).warehouse, StoredConfigs(c2).warehouse,
                        sensitiveCredentialsFieldNames)
        /\ StoredConfigs(c1).warehouse # {}
        /\ "k2" \in DOMAIN pout[c1].value.dbtConnection

====
